---- MODULE Spec2Model ----
(***************************************************************************)
(* State-machine model of the chat backend's session coordination:         *)
(*   - RateLimitMiddleware (sliding window admission control),             *)
(*   - the thread-lock registry (bounded LRU of asyncio.Lock objects),     *)
(*   - the send_message / send_message_stream handlers and the             *)
(*     classify_and_prepare / answer / answer_stream pipeline of rag.py,   *)
(*   - the SQLite store (threads, messages, user_data_cache).              *)
(* Every action is one run of the event loop between two suspension points *)
(* (awaits); a store operation takes effect in the step that awaits it.    *)
(* Configuration values that are huge in production (MAX_THREAD_LOCKS,     *)
(* MAX_TRACKED_IPS, the sweep period, history windows) are scaled down.    *)
(***************************************************************************)
EXTENDS Integers, Sequences, FiniteSets, TLC

\* ------------------------------------------------------------------ bounds
NumSenders == 2        \* concurrent senders (requests in flight)
MaxMsgs == 2           \* requests issued by each sender, one after the other
MaxRateCalls == 4      \* requests issued in the rate-limiter scenario
MaxTime == 3           \* last value of the clock
MaxChunks == 2         \* fragments a generative stream yields at most
MaxLocks == 2          \* capacity of the lock registry when its order matters
MaxLookupCalls == 4    \* requests issued in the registry scenario
MaxLimit == 2          \* largest page size asked of list-messages
MaxOffset == 1         \* largest offset asked of list-messages
MaxRows == 3           \* most rows of a table that is read page by page

\* ------------------------------------------------- configuration (scaled)
MAX_THREAD_LOCKS == 1  \* settings.MAX_THREAD_LOCKS
MAX_TRACKED_IPS == 2   \* settings.MAX_TRACKED_IPS
SWEEP_EVERY == 3       \* "if self._sweep_counter >= 50"
GET_MULTIPLIER == 3    \* "self.max_requests * 3"
MESSAGE_RETENTION_DAYS == 2  \* settings.MESSAGE_RETENTION_DAYS, in clock steps
CACHE_RETENTION_DAYS == 1    \* settings.CACHE_RETENTION_DAYS, in clock steps

Senders == 1..NumSenders
None == "None"

VARIABLES
  \* RateLimitMiddleware
  now,            \* time()
  hits,           \* self._hits: caller id -> list of admission timestamps
  sweep_counter,  \* self._sweep_counter
  max_requests,   \* self.max_requests
  window,         \* self.window
  rl_log,         \* what dispatch answered, in call order (observation)
  \* thread-lock registry
  thread_locks,   \* app.state.thread_locks: OrderedDict, oldest first
  locks,          \* every asyncio.Lock created so far: [locked, waiters]
  \* durable store
  threads,        \* table threads: thread id -> number of rows with that id
  messages,       \* table messages, in rowid order
  cache,          \* table user_data_cache: <<thread, user>> -> record
  \* requests, one slot per sender
  pc, req, handle, history, intent, user_data, parts, events, status, result,
  calls,
  issued,         \* requests each sender has issued
  nreq,           \* requests issued in all (request ids)
  fetch_log,      \* outcomes of fetch_user_data calls, in call order
  orphaned,       \* thread ids whose lock was evicted while held or awaited
  lookups,        \* get_thread_lock calls and the locks returned (observation)
  classify_out,   \* what ollama.classify did for each slot's request (observation)
  inputs          \* the scenario: what callers may send, what may fail

rlvars == <<now, hits, sweep_counter, max_requests, window, rl_log>>
regvars == <<thread_locks, locks>>
dbvars == <<threads, messages, cache>>
reqvars == <<pc, req, handle, history, intent, user_data, parts, events,
             status, result, calls, issued, nreq>>
vars == <<rlvars, regvars, dbvars, reqvars, fetch_log, orphaned, lookups,
          classify_out, inputs>>

\* ------------------------------------------------------------- rate limiter
Method(kind) ==
  CASE kind \in {"send", "stream", "create"} -> "POST"
    [] kind \in {"list", "health"} -> "GET"
    [] OTHER -> "OPTIONS"

\* a read that misses what concurrent requests of the caller have stored
StaleRead(h, ip) == <<>>

\* self._hits.get(client_ip, [])
HitsOf(h, ip) == IF ip \in DOMAIN h THEN h[ip] ELSE <<>>

\* [t for t in timestamps if now - t < self.window]
KeepAll(ts, t, w) == ts

InWindow(ts, t, w) == SelectSeq(ts, LAMBDA x : t - x < w)

\* a sweep that removes nothing
SweepNone(h, t, w) == h

\* _do_sweep: drop every caller whose list is empty or wholly stale
StaleIps(h, t, w) ==
  {ip \in DOMAIN h :
     Len(h[ip]) = 0 \/ \A i \in 1..Len(h[ip]) : t - h[ip][i] >= w}

do_sweep(h, t, w) == [ip \in (DOMAIN h) \ StaleIps(h, t, w) |-> h[ip]]

\* one limit for every method class
SameLimit(method, maxr) == maxr

\* the limit of the request's method class
LimitOf(method, maxr) ==
  IF method = "GET" THEN maxr * GET_MULTIPLIER ELSE maxr

\* the admission test of dispatch
RejectsAbove(ts, limit) == Len(ts) > limit

Rejects(ts, limit) == Len(ts) >= limit

\* the 429 answer: dispatch returns before it writes anything
RejectedCounted(h, sc) ==
  [code |-> 429, counted |-> FALSE, hits |-> h, sweep_counter |-> sc + 1]

Rejected(h, sc) ==
  [code |-> 429, counted |-> FALSE, hits |-> h, sweep_counter |-> sc]

\* dispatch, as a function of the limiter's state: what it answers and the
\* state it leaves
RateLimit(h, sc, ip, method, t, maxr, w) ==
  IF method \notin {"GET", "POST"}
  THEN [code |-> 200, counted |-> FALSE, hits |-> h, sweep_counter |-> sc]
  ELSE
    LET ts == InWindow(HitsOf(h, ip), t, w) IN
    IF Rejects(ts, LimitOf(method, maxr))
    THEN Rejected(h, sc)
    ELSE
      LET h1 == [i \in (DOMAIN h) \cup {ip} |->
                   IF i = ip THEN Append(ts, t) ELSE h[i]]
          h2 == IF Cardinality(DOMAIN h1) > MAX_TRACKED_IPS
                THEN do_sweep(h1, t, w) ELSE h1
          sc1 == sc + 1
      IN IF sc1 >= SWEEP_EVERY
         THEN [code |-> 200, counted |-> TRUE,
               hits |-> do_sweep(h2, t, w), sweep_counter |-> 0]
         ELSE [code |-> 200, counted |-> TRUE,
               hits |-> h2, sweep_counter |-> sc1]

\* ------------------------------------------------------ thread-lock registry
\* position of thread_id in the OrderedDict, 0 if absent
IndexOf(reg, tid) ==
  IF \E i \in 1..Len(reg) : reg[i].tid = tid
  THEN CHOOSE i \in 1..Len(reg) : reg[i].tid = tid
  ELSE 0

\* locks.move_to_end(thread_id)
StayInPlace(reg, i) == reg

MoveToEnd(reg, i) ==
  SubSeq(reg, 1, i - 1) \o SubSeq(reg, i + 1, Len(reg)) \o <<reg[i]>>

\* while len(locks) >= settings.MAX_THREAD_LOCKS: locks.popitem(last=False)
EvictNone(reg) == reg

EvictOldest(reg) ==
  IF Len(reg) >= inputs.capacity
  THEN SubSeq(reg, Len(reg) - inputs.capacity + 2, Len(reg))
  ELSE reg

\* get_thread_lock: the registry and the lock table it leaves, and the lock
NewLockMutant(reg, lks, tid) ==
  [reg |-> Append(EvictOldest(reg), [tid |-> tid, lock |-> Len(lks) + 1]),
   locks |-> Append(lks, [locked |-> FALSE, waiters |-> <<>>]),
   lock |-> Len(lks) + 1]

get_thread_lock(reg, lks, tid) ==
  LET i == IndexOf(reg, tid) IN
  IF i > 0
  THEN [reg |-> MoveToEnd(reg, i), locks |-> lks, lock |-> reg[i].lock]
  ELSE [reg |-> Append(EvictOldest(reg), [tid |-> tid, lock |-> Len(lks) + 1]),
        locks |-> Append(lks, [locked |-> FALSE, waiters |-> <<>>]),
        lock |-> Len(lks) + 1]

\* the thread ids get_thread_lock drops from the registry while their lock is
\* held or awaited
EvictedInUse(reg, newreg, lks) ==
  {reg[i].tid : i \in {j \in 1..Len(reg) :
      /\ \A k \in 1..Len(newreg) : newreg[k].tid # reg[j].tid
      /\ (lks[reg[j].lock].locked \/ lks[reg[j].lock].waiters # <<>>)}}

\* asyncio.Lock.acquire takes the lock at once only when it is free and
\* nobody is queued for it
AlwaysFree(l) == TRUE

CanAcquireNow(l) == ~l.locked /\ l.waiters = <<>>

\* a release that leaves the lock locked
KeepLocked(lks, h) == lks

\* a release that forgets who waits for the lock
ReleaseAndForget(lks, h) ==
  [lks EXCEPT ![h] = [locked |-> FALSE, waiters |-> <<>>]]

\* asyncio.Lock.release
Released(lks, h) == [lks EXCEPT ![h].locked = FALSE]

\* ----------------------------------------------------------- durable store
\* the absent record (None)
NoData == [present |-> FALSE]

\* thread_exists: SELECT 1 FROM threads WHERE id = ?
thread_exists(thr, tid) == tid \in DOMAIN thr

\* ensure_thread: INSERT the thread unless it exists
InsertThread(thr, tid) ==
  [k \in (DOMAIN thr) \cup {tid} |->
     IF k = tid THEN (IF tid \in DOMAIN thr THEN thr[tid] + 1 ELSE 1)
     ELSE thr[k]]

ensure_thread(thr, tid) ==
  IF thread_exists(thr, tid) THEN thr
  ELSE [k \in (DOMAIN thr) \cup {tid} |-> IF k = tid THEN 1 ELSE thr[k]]

\* add_message: one INSERT of one row
DropMessage(msgs, tid, role, content, by, t) == msgs

AddPrefix(msgs, tid, role, content, by, t) ==
  Append(msgs, [id |-> Len(msgs) + 1, thread |-> tid, role |-> role,
                content |-> SubSeq(content, 1, Len(content) - 1),
                by |-> by, created_at |-> t])

\* an insert that is carried out twice
AddTwice(msgs, tid, role, content, by, t) ==
  LET row == [thread |-> tid, role |-> role, content |-> content,
              by |-> by, created_at |-> t]
  IN msgs \o <<[id |-> Len(msgs) + 1] @@ row, [id |-> Len(msgs) + 2] @@ row>>

add_message(msgs, tid, role, content, by, t) ==
  Append(msgs, [id |-> Len(msgs) + 1, thread |-> tid, role |-> role,
                content |-> content, by |-> by, created_at |-> t])

ThreadMessages(msgs, tid) == SelectSeq(msgs, LAMBDA m : m.thread = tid)

LastN(sq, n) == IF Len(sq) <= n THEN sq ELSE SubSeq(sq, Len(sq) - n + 1, Len(sq))

\* the first `limit` rows of the thread instead of the last
get_oldest_thread_messages(msgs, tid, limit) ==
  LET rows == ThreadMessages(msgs, tid) IN
  IF Len(rows) <= limit THEN rows ELSE SubSeq(rows, 1, limit)

\* the sort key "created_at, rowid": row a comes before row b (the model's
\* id is the row's place in the table, its rowid)
RowBefore(a, b) ==
  \/ a.created_at < b.created_at
  \/ a.created_at = b.created_at /\ a.id < b.id

\* the rows that come before row i of rs under the key
Ahead(rs, i) == {j \in 1..Len(rs) : RowBefore(rs[j], rs[i])}

\* ORDER BY created_at ASC, rowid ASC: the row with k - 1 rows before it
\* under the key comes k-th (the key is total, rowid being unique)
OrderAsc(rows) ==
  CHOOSE sorted \in
    {[k \in 1..Len(rs) |->
        rs[CHOOSE i \in 1..Len(rs) : Cardinality(Ahead(rs, i)) = k - 1]] :
       rs \in {rows}} : TRUE

\* ORDER BY created_at DESC, rowid DESC
OrderDesc(rows) ==
  CHOOSE sorted \in
    {[k \in 1..Len(rs) |->
        rs[CHOOSE i \in 1..Len(rs) :
             Cardinality(Ahead(rs, i)) = Len(rs) - k]] :
       rs \in {rows}} : TRUE

\* LIMIT n
Limit(rows, n) == IF Len(rows) <= n THEN rows ELSE SubSeq(rows, 1, n)

\* get_recent_thread_messages: the `limit` newest rows of the thread (inner
\* SELECT, newest first), put back oldest first by the outer ORDER BY
get_recent_thread_messages(msgs, tid, limit) ==
  OrderAsc(Limit(OrderDesc(ThreadMessages(msgs, tid)), limit))

\* a page cut out of the table in insertion order, whatever created_at says
PageByRowid(msgs, tid, limit, offset) ==
  LET rows == ThreadMessages(msgs, tid)
      last == IF offset + limit < Len(rows) THEN offset + limit ELSE Len(rows)
  IN [messages |-> SubSeq(rows, offset + 1, last), total |-> Len(rows)]

\* get_paginated_thread_messages: COUNT(*) of the thread's rows and the rows
\* ORDER BY created_at ASC, rowid ASC LIMIT limit OFFSET offset
get_paginated_thread_messages(msgs, tid, limit, offset) ==
  LET rows == OrderAsc(ThreadMessages(msgs, tid))
      last == IF offset + limit < Len(rows) THEN offset + limit ELSE Len(rows)
  IN [messages |-> SubSeq(rows, offset + 1, last), total |-> Len(rows)]

\* history = messages[:-1] if len(messages) > 1 else None
HistoryOf(ms) ==
  IF Len(ms) > 1 THEN [i \in 1..(Len(ms) - 1) |-> ms[i].id] ELSE <<>>

\* json.dumps(data, ensure_ascii=False, default=str) and json.loads: the
\* aggregate is built from parsed JSON responses, so the text read back is
\* the value that was written
json_dumps(data) == [text |-> data]

json_loads(data_json) == data_json.text

\* get_cached_user_data: the row of (thread_id, user_id), parsed, or None
CacheMiss(c, tid, uid) == NoData

get_cached_user_data(c, tid, uid) ==
  IF <<tid, uid>> \in DOMAIN c THEN json_loads(c[<<tid, uid>>].data_json)
  ELSE NoData

\* save_user_data: INSERT OR REPLACE on the unique (thread_id, user_id); the
\* row holds json.dumps(data) and created_at defaults to datetime('now')
save_user_data(c, tid, uid, data, t) ==
  [k \in (DOMAIN c) \cup {<<tid, uid>>} |->
     IF k = <<tid, uid>>
     THEN [data_json |-> json_dumps(data), created_at |-> t]
     ELSE c[k]]

\* a row removed by DELETE: its place in the sequence stays taken, because
\* the ids of the model are positions and a uuid4 id is never issued twice
Deleted(m) ==
  [id |-> m.id, thread |-> "", role |-> "deleted", content |-> <<>>,
   by |-> m.by, created_at |-> m.created_at]

\* cleanup_old_data: DELETE FROM messages WHERE created_at < now - message
\* days; DELETE FROM user_data_cache WHERE created_at < now - cache days
cleanup_old_data(msgs, c, t) ==
  [messages |-> [k \in 1..Len(msgs) |->
                   IF msgs[k].created_at < t - MESSAGE_RETENTION_DAYS
                   THEN Deleted(msgs[k]) ELSE msgs[k]],
   cache |-> [k \in {x \in DOMAIN c :
                       ~(c[x].created_at < t - CACHE_RETENTION_DAYS)} |-> c[k]]]

\* ------------------------------------------------------- intent classifier
\* message.lower(): the upper-case words of the model's vocabulary
Lower(w) ==
  CASE w = "MY" -> "my"
    [] w = "Card" -> "card"
    [] w = "STATUS" -> "status"
    [] OTHER -> w

Normalize(message) == [i \in 1..Len(message) |-> Lower(message[i])]

\* kw in msg_normalized
Contains(m, kw) ==
  \E i \in 1..(Len(m) - Len(kw) + 1) : SubSeq(m, i, i + Len(kw) - 1) = kw

ECARD_KEYWORDS == {<<"my", "card">>, <<"ecard">>}
STATUS_CHECK_KEYWORDS == {<<"my", "status">>, <<"check", "status">>}
VALID_INTENTS == {"ECARD", "STATUS_CHECK", "GENERAL"}

\* _keyword_intent with the status keywords tested first
StatusFirst(message) ==
  LET m == Normalize(message) IN
  IF \E kw \in STATUS_CHECK_KEYWORDS : Contains(m, kw) THEN "STATUS_CHECK"
  ELSE IF \E kw \in ECARD_KEYWORDS : Contains(m, kw) THEN "ECARD"
  ELSE None

\* _keyword_intent
keyword_intent(message) ==
  LET m == Normalize(message) IN
  IF \E kw \in ECARD_KEYWORDS : Contains(m, kw) THEN "ECARD"
  ELSE IF \E kw \in STATUS_CHECK_KEYWORDS : Contains(m, kw) THEN "STATUS_CHECK"
  ELSE None

\* str.upper() and str.rstrip(".,;:!?") on the classifier's words
Upper(w) ==
  CASE w = "ecard" -> "ECARD"
    [] w = "status_check." -> "STATUS_CHECK."
    [] w = "general" -> "GENERAL"
    [] OTHER -> w

RStripPunct(w) ==
  CASE w = "STATUS_CHECK." -> "STATUS_CHECK"
    [] w = "ECARD!" -> "ECARD"
    [] OTHER -> w

\* _llm_classify_intent taking the first word as it is
FirstWordAsIs(out) ==
  IF ~out.ok THEN "GENERAL"
  ELSE LET parsed == IF Len(out.raw) > 0 THEN out.raw[1] ELSE ""
       IN IF parsed \in VALID_INTENTS THEN parsed ELSE "GENERAL"

\* _llm_classify_intent on what ollama.classify did: out.ok = FALSE is a raised
\* exception, out.raw the words of the answer
llm_classify_intent(out) ==
  IF ~out.ok THEN "GENERAL"
  ELSE LET parsed == IF Len(out.raw) > 0
                     THEN RStripPunct(Upper(out.raw[1])) ELSE ""
       IN IF parsed \in VALID_INTENTS THEN parsed ELSE "GENERAL"

\* bool(user_id and auth_token)
is_authenticated(user_id, auth_token) == user_id # "" /\ auth_token # ""

\* the generative classifier is asked whoever the caller is
AskForAnyCaller(message, authed) == keyword_intent(message) = None

\* _classify_intent needs the generative classifier
NeedsLLM(message, authed) == keyword_intent(message) = None /\ authed

NoLLM == [ok |-> TRUE, raw |-> <<"unused">>]

classify_intent(message, authed, out) ==
  IF keyword_intent(message) # None THEN keyword_intent(message)
  ELSE IF ~authed THEN "GENERAL"
  ELSE llm_classify_intent(out)

\* classify_and_prepare, after _classify_intent: the intent handed on, and
\* whether _get_or_fetch_user_data is called
RouteNoLogin(label, authed) ==
  IF label = "ECARD" /\ authed THEN [intent |-> "ECARD", resolve |-> FALSE]
  ELSE [intent |-> label, resolve |-> authed]

\* the record is resolved for status requests only
RouteStatusOnly(label, authed) ==
  IF label \in {"ECARD", "STATUS_CHECK"} /\ ~authed
  THEN [intent |-> "LOGIN_REQUIRED", resolve |-> FALSE]
  ELSE IF label = "ECARD" /\ authed
  THEN [intent |-> "ECARD", resolve |-> FALSE]
  ELSE [intent |-> label, resolve |-> authed /\ label = "STATUS_CHECK"]

RouteCardFetch(label, authed) ==
  IF label \in {"ECARD", "STATUS_CHECK"} /\ ~authed
  THEN [intent |-> "LOGIN_REQUIRED", resolve |-> FALSE]
  ELSE [intent |-> label, resolve |-> authed]

Route(label, authed) ==
  IF label \in {"ECARD", "STATUS_CHECK"} /\ ~authed
  THEN [intent |-> "LOGIN_REQUIRED", resolve |-> FALSE]
  ELSE IF label = "ECARD" /\ authed
  THEN [intent |-> "ECARD", resolve |-> FALSE]
  ELSE [intent |-> label, resolve |-> authed]

\* ---------------------------------------------------------------- composer
LOGIN_REQUIRED_RESPONSE == <<"<<LOGIN_MODAL_REQUIRED>>">>
ECARD_RESPONSE == <<"ECARD">>
UNABLE_RESPONSE ==
  <<"Unable to fetch your information at this time. Please try again later.">>
MAX_ANSWER_LENGTH == 2
MAX_HISTORY_MESSAGES == 2
AUTHENTICATED_HISTORY_MESSAGES == 1

\* fetch_user_data: every endpoint failure is caught inside it; it returns
\* the aggregate either way
fetch_user_data(user_id, outcome) ==
  [present |-> TRUE, user_id |-> user_id, errors |-> outcome # "ok"]

\* _cap_answer_length
cap_answer_length(text) ==
  IF Len(text) > MAX_ANSWER_LENGTH THEN SubSeq(text, 1, MAX_ANSWER_LENGTH)
  ELSE text

\* answer / answer_stream reply without the generative backend
IsFixedReply(label, data) ==
  \/ label \in {"LOGIN_REQUIRED", "ECARD"}
  \/ label = "STATUS_CHECK" /\ ~data.present

FixedReply(label) ==
  CASE label = "LOGIN_REQUIRED" -> LOGIN_REQUIRED_RESPONSE
    [] label = "ECARD" -> ECARD_RESPONSE
    [] OTHER -> UNABLE_RESPONSE

\* "".join(full_answer_parts)
RECURSIVE Join(_)
Join(ps) == IF ps = <<>> THEN <<>> ELSE Head(ps) \o Join(Tail(ps))

\* history_limit of the handlers
HistoryLimit(authed) ==
  IF authed THEN AUTHENTICATED_HISTORY_MESSAGES ELSE MAX_HISTORY_MESSAGES

\* answer / answer_stream: max_hist, and truncated_history = history[-max_hist:]
\* handed to ollama.chat / ollama.chat_stream
max_hist(lbl, data) ==
  IF lbl = "STATUS_CHECK" \/ data.present
  THEN AUTHENTICATED_HISTORY_MESSAGES ELSE MAX_HISTORY_MESSAGES

truncated_history(hist, lbl, data) == LastN(hist, max_hist(lbl, data))

\* the characters of the thread ids of the model
Chars(tid) ==
  CASE tid = "thread-1" ->
         <<"t", "h", "r", "e", "a", "d", "-", "1">>
    [] tid = "thread-2" ->
         <<"t", "h", "r", "e", "a", "d", "-", "2">>
    [] tid = "THREAD-1" ->
         <<"T", "H", "R", "E", "A", "D", "-", "1">>
    [] tid = "thread-1\n" ->
         <<"t", "h", "r", "e", "a", "d", "-", "1", "\n">>
    [] tid = "not-a-uuid" ->
         <<"n", "o", "t", "-", "a", "-", "u", "u", "i", "d">>
    [] tid = "00000000-0000-0000-0000-000000000000" ->
         <<"0", "0", "0", "0", "0", "0", "0", "0", "-", "0", "0", "0", "0",
         "-", "0", "0", "0", "0", "-", "0", "0", "0", "0", "-", "0", "0",
         "0", "0", "0", "0", "0", "0", "0", "0", "0", "0">>
    [] OTHER -> <<>>

DecimalDigits == {"0", "1", "2", "3", "4", "5", "6", "7", "8", "9"}
HexLetters == {"a", "b", "c", "d", "e", "f"}

\* re.IGNORECASE: the letters of the pattern match either case
FoldCase(c) ==
  CASE c = "A" -> "a" [] c = "B" -> "b" [] c = "C" -> "c" [] c = "D" -> "d"
    [] c = "E" -> "e" [] c = "F" -> "f" [] c = "T" -> "t" [] c = "H" -> "h"
    [] c = "R" -> "r"
    [] OTHER -> c

\* [0-9a-f]{8}-[0-9a-f]{4}-[0-9a-f]{4}-[0-9a-f]{4}-[0-9a-f]{12}
MatchesUuid(cs) ==
  /\ Len(cs) = 36
  /\ \A i \in 1..Len(cs) :
       IF i \in {9, 14, 19, 24} THEN cs[i] = "-"
       ELSE FoldCase(cs[i]) \in DecimalDigits \cup HexLetters

\* thread-\d+
MatchesThread(cs) ==
  /\ Len(cs) >= 8
  /\ [i \in 1..7 |-> FoldCase(cs[i])] = <<"t", "h", "r", "e", "a", "d", "-">>
  /\ \A i \in 8..Len(cs) : cs[i] \in DecimalDigits

\* "$" matches at the end of the string and also just before a newline that
\* ends the string
BeforeFinalNewline(cs) ==
  IF Len(cs) > 0 /\ cs[Len(cs)] = "\n" THEN SubSeq(cs, 1, Len(cs) - 1) ELSE cs

\* _UUID_RE.match(thread_id)
UUID_RE(cs) ==
  \/ MatchesUuid(cs) \/ MatchesThread(cs)
  \/ MatchesUuid(BeforeFinalNewline(cs)) \/ MatchesThread(BeforeFinalNewline(cs))

\* _validate_thread_id: FALSE is HTTPException(400)
validate_thread_id(tid) == UUID_RE(Chars(tid))

\* ----------------------------------------------------------------- requests
NoReq == [id |-> 0, kind |-> "none", tid |-> "", msg |-> <<>>,
          userId |-> "", authToken |-> "", ip |-> ""]
NoCalls == [chat |-> 0, chat_stream |-> 0, classify |-> 0, fetch |-> 0,
            save |-> 0, lookup |-> 0]

Authed(s) == is_authenticated(req[s].userId, req[s].authToken)

\* the request holds the asyncio.Lock `handle[s]` (it is inside `async with`)
LockedPcs == {"ensure", "add_user", "read_history", "classify",
              "cache_lookup", "fetch", "save", "compose", "add_assistant",
              "commit"}
WaitingPcs == {"waiting", "commit_wait"}
InLocked(s) == pc[s] \in LockedPcs

\* the request ends: its answer is out, whatever lock it held is released
Finish(s, code) ==
  /\ pc' = [pc EXCEPT ![s] = "done"]
  /\ status' = [status EXCEPT ![s] = code]

\* ---- RateLimitMiddleware.dispatch: a request arrives
Dispatch(s) ==
  /\ pc[s] \in {"idle", "done"}
  /\ s <= inputs.senders
  /\ issued[s] < inputs.maxMsgs
  /\ IF s = 1 THEN TRUE ELSE issued[s - 1] > 0
  /\ \E kind \in inputs.kinds, tid \in inputs.threads, msg \in inputs.msgs,
        auth \in inputs.auths, ip \in inputs.ips :
       LET r == RateLimit(hits, sweep_counter, ip, Method(kind), now,
                          max_requests, window)
       IN /\ hits' = r.hits
          /\ sweep_counter' = r.sweep_counter
          /\ rl_log' = Append(rl_log, [ip |-> ip, method |-> Method(kind),
                                       t |-> now, code |-> r.code])
          /\ req' = [req EXCEPT ![s] =
                       [id |-> nreq + 1, kind |-> kind, tid |-> tid,
                        msg |-> msg, userId |-> auth.userId,
                        authToken |-> auth.authToken, ip |-> ip]]
          /\ pc' = [pc EXCEPT ![s] = IF r.code = 429 THEN "done" ELSE "admitted"]
          /\ status' = [status EXCEPT ![s] = IF r.code = 429 THEN 429 ELSE 0]
  /\ nreq' = nreq + 1
  /\ issued' = [issued EXCEPT ![s] = @ + 1]
  /\ handle' = [handle EXCEPT ![s] = 0]
  /\ history' = [history EXCEPT ![s] = <<>>]
  /\ intent' = [intent EXCEPT ![s] = None]
  /\ user_data' = [user_data EXCEPT ![s] = NoData]
  /\ parts' = [parts EXCEPT ![s] = <<>>]
  /\ events' = [events EXCEPT ![s] = <<>>]
  /\ result' = [result EXCEPT ![s] = <<>>]
  /\ calls' = [calls EXCEPT ![s] = NoCalls]
  /\ UNCHANGED <<now, max_requests, window, regvars, dbvars, fetch_log, inputs, classify_out, orphaned, lookups>>

\* the clock advances
Tick ==
  /\ now < inputs.maxTime
  /\ now' = now + 1
  /\ UNCHANGED <<hits, sweep_counter, max_requests, window, rl_log, regvars,
                 dbvars, reqvars, fetch_log, inputs, classify_out, orphaned, lookups>>

\* _periodic_cleanup: the background task wakes up and runs cleanup_old_data
\* on the shared connection; it takes no thread lock
PeriodicCleanup ==
  /\ LET kept == cleanup_old_data(messages, cache, now) IN
       /\ messages' = kept.messages
       /\ cache' = kept.cache
  /\ UNCHANGED <<rlvars, regvars, threads, reqvars, fetch_log, inputs, classify_out,
                 orphaned, lookups>>

\* call_next(request) when the route is not modelled further
CallNext(s) ==
  /\ pc[s] = "admitted"
  /\ req[s].kind \notin {"send", "stream"}
  /\ Finish(s, 200)
  /\ UNCHANGED <<rlvars, regvars, dbvars, req, handle, history, intent,
                 user_data, parts, events, result, calls, issued, nreq,
                 fetch_log, inputs, classify_out, orphaned, lookups>>

\* str(int): the decimal digits of a natural number
DigitChar(d) ==
  CASE d = 0 -> "0" [] d = 1 -> "1" [] d = 2 -> "2" [] d = 3 -> "3"
    [] d = 4 -> "4" [] d = 5 -> "5" [] d = 6 -> "6" [] d = 7 -> "7"
    [] d = 8 -> "8" [] d = 9 -> "9"

RECURSIVE ToDigits(_)
ToDigits(n) ==
  IF n < 10 THEN <<DigitChar(n)>>
  ELSE ToDigits(n \div 10) \o <<DigitChar(n % 10)>>

\* f"thread-{int(time.time())}", as characters
new_thread_id(t) == <<"t", "h", "r", "e", "a", "d", "-">> \o ToDigits(t)

\* ---- create_chat_thread: the id is made from the clock, nothing is written
CreateThread(s) ==
  /\ pc[s] = "admitted"
  /\ req[s].kind = "create"
  /\ result' = [result EXCEPT ![s] = <<[id |-> new_thread_id(now)]>>]
  /\ Finish(s, 200)
  /\ UNCHANGED <<rlvars, regvars, dbvars, req, handle, history, intent,
                 user_data, parts, events, calls, issued, nreq, fetch_log,
                 inputs, classify_out, orphaned, lookups>>

\* ---- get_messages: validate the id, read one page, answer 200
GetMessages(s) ==
  /\ pc[s] = "admitted"
  /\ req[s].kind = "list"
  /\ IF ~validate_thread_id(req[s].tid)
     THEN /\ Finish(s, 400)
          /\ UNCHANGED result
     ELSE /\ \E limit \in 1..MaxLimit, offset \in 0..MaxOffset :
               LET page == get_paginated_thread_messages(messages, req[s].tid,
                                                         limit, offset)
               IN result' = [result EXCEPT ![s] =
                    <<[threadId |-> req[s].tid, messages |-> page.messages,
                       total |-> page.total, limit |-> limit,
                       offset |-> offset]>>]
          /\ Finish(s, 200)
  /\ UNCHANGED <<rlvars, regvars, dbvars, req, handle, history, intent,
                 user_data, parts, events, calls, issued, nreq, fetch_log,
                 inputs, classify_out, orphaned, lookups>>

\* ---- async with get_thread_lock(threadId): look the lock up, take it or queue
AcquireOrWait(s, got, queued) ==
  LET g == get_thread_lock(thread_locks, locks, req[s].tid)
      h == g.lock
  IN /\ thread_locks' = g.reg
     /\ orphaned' = orphaned \cup EvictedInUse(thread_locks, g.reg, locks)
     /\ lookups' = IF inputs.observe
                   THEN Append(lookups, [tid |-> req[s].tid, lock |-> h])
                   ELSE lookups
     /\ handle' = [handle EXCEPT ![s] = h]
     /\ IF CanAcquireNow(g.locks[h])
        THEN /\ locks' = [g.locks EXCEPT ![h].locked = TRUE]
             /\ pc' = [pc EXCEPT ![s] = got]
        ELSE /\ locks' = [g.locks EXCEPT ![h].waiters = Append(@, s)]
             /\ pc' = [pc EXCEPT ![s] = queued]

\* send_message / send_message_stream start: validate the id, enter the lock
Enter(s) ==
  /\ pc[s] = "admitted"
  /\ req[s].kind \in {"send", "stream"}
  /\ IF ~validate_thread_id(req[s].tid)
     THEN /\ Finish(s, 400)
          /\ UNCHANGED <<regvars, handle, orphaned, lookups>>
     ELSE /\ AcquireOrWait(s, "ensure", "waiting")
          /\ UNCHANGED status
  /\ UNCHANGED <<rlvars, dbvars, req, history, intent, user_data, parts,
                 events, result, calls, issued, nreq, fetch_log, inputs, classify_out>>

\* a queued acquire resumes: release woke the first waiter of the free lock
Wake(s) ==
  /\ pc[s] \in WaitingPcs
  /\ ~locks[handle[s]].locked
  /\ locks[handle[s]].waiters # <<>>
  /\ Head(locks[handle[s]].waiters) = s
  /\ locks' = [locks EXCEPT ![handle[s]] =
                 [locked |-> TRUE, waiters |-> Tail(@.waiters)]]
  /\ pc' = [pc EXCEPT ![s] = IF pc[s] = "waiting" THEN "ensure" ELSE "commit"]
  /\ UNCHANGED <<rlvars, thread_locks, dbvars, req, handle, history, intent,
                 user_data, parts, events, status, result, calls, issued,
                 nreq, fetch_log, inputs, classify_out, orphaned, lookups>>

\* await ensure_thread(db, threadId)
EnsureThread(s) ==
  /\ pc[s] = "ensure"
  /\ \E ok \in {TRUE} \cup {FALSE : x \in inputs.faults \cap {"db_thread"}} :
       IF ok
       THEN /\ threads' = ensure_thread(threads, req[s].tid)
            /\ pc' = [pc EXCEPT ![s] = "add_user"]
            /\ UNCHANGED <<locks, status>>
       ELSE /\ locks' = Released(locks, handle[s])
            /\ Finish(s, 500)
            /\ UNCHANGED threads
  /\ UNCHANGED <<rlvars, thread_locks, messages, cache, req, handle, history,
                 intent, user_data, parts, events, result, calls,
                 issued, nreq, fetch_log, inputs, classify_out, orphaned, lookups>>

\* await add_message(db, threadId, "user", ...); an exception leaves the
\* `async with` (the lock is released) and the request fails
AddUserMessage(s) ==
  /\ pc[s] = "add_user"
  /\ \E ok \in {TRUE} \cup {FALSE : x \in inputs.faults \cap {"db_user"}} :
       IF ok
       THEN /\ messages' = add_message(messages, req[s].tid, "user",
                                       req[s].msg, req[s].id, now)
            /\ pc' = [pc EXCEPT ![s] = "read_history"]
            /\ UNCHANGED <<locks, status>>
       ELSE /\ locks' = Released(locks, handle[s])
            /\ Finish(s, 500)
            /\ UNCHANGED messages
  /\ UNCHANGED <<rlvars, thread_locks, threads, cache, req, handle, history,
                 intent, user_data, parts, events, result, calls, issued,
                 nreq, fetch_log, inputs, classify_out, orphaned, lookups>>

\* messages = await get_recent_thread_messages(db, threadId, history_limit + 1)
ReadHistory(s) ==
  /\ pc[s] = "read_history"
  /\ history' = [history EXCEPT ![s] =
       HistoryOf(get_recent_thread_messages(messages, req[s].tid,
                                            HistoryLimit(Authed(s)) + 1))]
  /\ pc' = [pc EXCEPT ![s] = "classify"]
  /\ UNCHANGED <<rlvars, regvars, dbvars, req, handle, intent, user_data,
                 parts, events, status, result, calls, issued, nreq,
                 fetch_log, inputs, classify_out, orphaned, lookups>>

\* classify_and_prepare returns: send_message goes on to answer() inside the
\* lock, send_message_stream leaves its `async with` (the lock is released)
PreparedKeepLock(s, lbl, data) ==
  /\ intent' = [intent EXCEPT ![s] = lbl]
  /\ user_data' = [user_data EXCEPT ![s] = data]
  /\ locks' = locks
  /\ pc' = [pc EXCEPT ![s] = IF req[s].kind = "stream" THEN "streaming"
                                                       ELSE "compose"]

Prepared(s, lbl, data) ==
  /\ intent' = [intent EXCEPT ![s] = lbl]
  /\ user_data' = [user_data EXCEPT ![s] = data]
  /\ IF req[s].kind = "stream"
     THEN /\ locks' = Released(locks, handle[s])
          /\ pc' = [pc EXCEPT ![s] = "streaming"]
     ELSE /\ locks' = locks
          /\ pc' = [pc EXCEPT ![s] = "compose"]

\* _classify_intent and the routing of classify_and_prepare
ClassifyIntent(s) ==
  /\ pc[s] = "classify"
  /\ LET llm == NeedsLLM(req[s].msg, Authed(s)) IN
     \E out \in (IF llm THEN inputs.llm ELSE {NoLLM}) :
       LET r == Route(classify_intent(req[s].msg, Authed(s), out), Authed(s))
       IN /\ calls' = [calls EXCEPT ![s].classify = IF llm THEN 1 ELSE 0]
          /\ classify_out' = [classify_out EXCEPT ![s] = out]
          /\ IF r.resolve
             THEN /\ intent' = [intent EXCEPT ![s] = r.intent]
                  /\ pc' = [pc EXCEPT ![s] = "cache_lookup"]
                  /\ UNCHANGED <<user_data, locks>>
             ELSE Prepared(s, r.intent, NoData)
  /\ UNCHANGED <<rlvars, thread_locks, dbvars, req, handle, history, parts,
                 events, status, result, issued, nreq, fetch_log, inputs,
                 orphaned, lookups>>

\* _get_or_fetch_user_data, step 1: cached = await get_cached_user_data(...)
CacheLookup(s) ==
  /\ pc[s] = "cache_lookup"
  /\ \E ok \in {TRUE} \cup {FALSE : x \in inputs.faults \cap {"db_cache"}} :
       IF ok
       THEN /\ LET cached == get_cached_user_data(cache, req[s].tid,
                                                   req[s].userId) IN
               IF cached.present
               THEN Prepared(s, intent[s], cached)
               ELSE /\ pc' = [pc EXCEPT ![s] = "fetch"]
                    /\ UNCHANGED <<intent, user_data, locks>>
            /\ UNCHANGED status
       ELSE /\ locks' = Released(locks, handle[s])
            /\ Finish(s, 500)
            /\ UNCHANGED <<intent, user_data>>
  /\ calls' = [calls EXCEPT ![s].lookup = @ + 1]
  /\ UNCHANGED <<rlvars, thread_locks, dbvars, req, handle, history, parts,
                 events, result, issued, nreq, fetch_log,
                 inputs, classify_out, orphaned, lookups>>

\* step 2: data = await fetch_user_data(http_client, user_id, auth_token)
Fetch(s) ==
  /\ pc[s] = "fetch"
  /\ \E out \in inputs.fetch :
       LET data == fetch_user_data(req[s].userId, out) IN
       /\ fetch_log' = Append(fetch_log,
            [by |-> req[s].id, tid |-> req[s].tid, uid |-> req[s].userId,
             outcome |-> out])
       /\ IF ~data.present
          THEN Prepared(s, intent[s], NoData)
          ELSE /\ user_data' = [user_data EXCEPT ![s] = data]
               /\ pc' = [pc EXCEPT ![s] = "save"]
               /\ UNCHANGED <<intent, locks>>
  /\ calls' = [calls EXCEPT ![s].fetch = @ + 1]
  /\ UNCHANGED <<rlvars, thread_locks, dbvars, req, handle, history, parts,
                 events, status, result, issued, nreq, inputs, classify_out, orphaned, lookups>>

\* step 3: await save_user_data(...); a failure is logged and the fetched
\* data is used anyway
SaveUserData(s) ==
  /\ pc[s] = "save"
  /\ \E ok \in {TRUE} \cup {FALSE : x \in inputs.faults \cap {"db_save"}} :
       cache' = IF ok THEN save_user_data(cache, req[s].tid, req[s].userId,
                                          user_data[s], now)
                ELSE cache
  /\ calls' = [calls EXCEPT ![s].save = @ + 1]
  /\ Prepared(s, intent[s], user_data[s])
  /\ UNCHANGED <<rlvars, thread_locks, threads, messages, req, handle,
                 history, parts, events, status, result, issued, nreq,
                 fetch_log, inputs, classify_out, orphaned, lookups>>

\* result = await answer(...): a fixed reply, or retrieval and ollama.chat;
\* an exception becomes HTTP 502
Answer(s) ==
  /\ pc[s] = "compose"
  /\ IF IsFixedReply(intent[s], user_data[s])
     THEN /\ result' = [result EXCEPT ![s] = FixedReply(intent[s])]
          /\ pc' = [pc EXCEPT ![s] = "add_assistant"]
          /\ UNCHANGED <<calls, locks, status>>
     ELSE \E g \in inputs.gens :
            /\ g.at = "retrieve" => intent[s] = "GENERAL"
            /\ calls' = [calls EXCEPT ![s].chat =
                           IF g.at = "retrieve" THEN 0 ELSE 1]
            /\ IF g.ok
               THEN /\ result' = [result EXCEPT ![s] = cap_answer_length(g.text)]
                    /\ pc' = [pc EXCEPT ![s] = "add_assistant"]
                    /\ UNCHANGED <<locks, status>>
               ELSE /\ locks' = Released(locks, handle[s])
                    /\ Finish(s, 502)
                    /\ UNCHANGED result
  /\ UNCHANGED <<rlvars, thread_locks, dbvars, req, handle, history, intent,
                 user_data, parts, events, issued, nreq, fetch_log, inputs, classify_out, orphaned, lookups>>

\* the reply is returned with 200 whether the INSERT succeeded or not
PersistOrPretend(s) ==
  /\ pc[s] = "add_assistant"
  /\ \E ok \in {TRUE} \cup {FALSE : x \in inputs.faults \cap {"db_assistant"}} :
       messages' = IF ok
                   THEN add_message(messages, req[s].tid, "assistant",
                                    result[s], req[s].id, now)
                   ELSE messages
  /\ Finish(s, 200)
  /\ locks' = Released(locks, handle[s])
  /\ UNCHANGED <<rlvars, thread_locks, threads, cache, req, handle, history,
                 intent, user_data, parts, events, result, calls, issued,
                 nreq, fetch_log, inputs, classify_out, orphaned, lookups>>

\* await add_message(db, threadId, "assistant", result, ...) and the return;
\* an exception becomes HTTP 500
PersistAssistant(s) ==
  /\ pc[s] = "add_assistant"
  /\ \E ok \in {TRUE} \cup {FALSE : x \in inputs.faults \cap {"db_assistant"}} :
       /\ messages' = IF ok
                      THEN add_message(messages, req[s].tid, "assistant",
                                       result[s], req[s].id, now)
                      ELSE messages
       /\ Finish(s, IF ok THEN 200 ELSE 500)
  /\ locks' = Released(locks, handle[s])
  /\ UNCHANGED <<rlvars, thread_locks, threads, cache, req, handle, history,
                 intent, user_data, parts, events, result, calls, issued,
                 nreq, fetch_log, inputs, classify_out, orphaned, lookups>>

\* ---- event_generator of send_message_stream
Fixed(s) == IsFixedReply(intent[s], user_data[s])

\* answer_stream yields a fragment: full_answer_parts.append(chunk) and the
\* chunk event
StreamChunk(s) ==
  /\ pc[s] = "streaming"
  /\ IF Fixed(s) THEN parts[s] = <<>> ELSE Len(parts[s]) < inputs.maxChunks
  /\ \E chunk \in (IF Fixed(s) THEN {FixedReply(intent[s])} ELSE inputs.chunks) :
       /\ parts' = [parts EXCEPT ![s] = Append(@, chunk)]
       /\ events' = [events EXCEPT ![s] =
                       Append(@, [event |-> "chunk", content |-> chunk])]
  /\ calls' = [calls EXCEPT ![s].chat_stream = IF Fixed(s) THEN 0 ELSE 1]
  /\ UNCHANGED <<rlvars, regvars, dbvars, pc, req, handle, history, intent,
                 user_data, status, result, issued, nreq, fetch_log, inputs, classify_out, orphaned, lookups>>

\* answer_stream is exhausted: join the parts and enter the lock again
StreamEnd(s) ==
  /\ pc[s] = "streaming"
  /\ Fixed(s) => Len(parts[s]) = 1
  /\ result' = [result EXCEPT ![s] = Join(parts[s])]
  /\ calls' = [calls EXCEPT ![s].chat_stream = IF Fixed(s) THEN 0 ELSE 1]
  /\ AcquireOrWait(s, "commit", "commit_wait")
  /\ UNCHANGED <<rlvars, dbvars, req, history, intent, user_data, parts,
                 events, status, issued, nreq, fetch_log, inputs, classify_out>>

\* the consumer of the stream goes away: the task that iterates
\* event_generator is cancelled, CancelledError is raised at the await or
\* yield where the generator stands. It is no Exception, so neither except
\* branch catches it, and no finally clause or shield holds it up: the
\* generator ends there. While it waits for the commit lock, the waiter is
\* taken out of the queue; while it awaits the insert under the lock, the
\* `async with` releases the lock and the insert is done or not.
Disconnect(s) ==
  /\ req[s].kind = "stream"
  /\ pc[s] \in {"streaming", "commit_wait", "commit"}
  /\ pc' = [pc EXCEPT ![s] = "cancelled"]
  /\ CASE pc[s] = "streaming" -> UNCHANGED <<locks, messages>>
       [] pc[s] = "commit_wait" ->
            /\ locks' = [locks EXCEPT ![handle[s]].waiters =
                           SelectSeq(@, LAMBDA w : w # s)]
            /\ UNCHANGED messages
       [] pc[s] = "commit" ->
            /\ locks' = Released(locks, handle[s])
            /\ \E written \in BOOLEAN :
                 messages' = IF written
                             THEN add_message(messages, req[s].tid, "assistant",
                                              result[s], req[s].id, now)
                             ELSE messages
  /\ UNCHANGED <<rlvars, thread_locks, threads, cache, req, handle, history,
                 intent, user_data, parts, events, status, result, calls,
                 issued, nreq, fetch_log, inputs, classify_out, orphaned,
                 lookups>>

\* the except branches of event_generator: yield the error event and return
CommitAnyway(s, code) ==
  /\ events' = [events EXCEPT ![s] =
                  Append(@, [event |-> "error", code |-> code])]
  /\ result' = [result EXCEPT ![s] = Join(parts[s])]
  /\ AcquireOrWait(s, "commit", "commit_wait")
  /\ UNCHANGED status

EndStream(s, code) ==
  /\ events' = [events EXCEPT ![s] =
                  Append(@, [event |-> "error", code |-> code])]
  /\ Finish(s, 200)
  /\ UNCHANGED <<regvars, handle, result, orphaned, lookups>>

\* answer_stream raises (retrieval or ollama.chat_stream failed): "except
\* Exception" yields the 502 error event
FailSilently(s) ==
  /\ pc[s] = "streaming"
  /\ ~Fixed(s)
  /\ "gen" \in inputs.faults
  /\ Finish(s, 200)
  /\ UNCHANGED <<rlvars, regvars, dbvars, req, handle, history, intent,
                 user_data, parts, events, result, calls, issued, nreq,
                 fetch_log, inputs, classify_out, orphaned, lookups>>

StreamFail(s) ==
  /\ pc[s] = "streaming"
  /\ ~Fixed(s)
  /\ "gen" \in inputs.faults
  /\ EndStream(s, 502)
  /\ UNCHANGED <<rlvars, dbvars, req, history, intent, user_data, parts,
                 calls, issued, nreq, fetch_log, inputs, classify_out>>

\* asyncio.timeout(OLLAMA_STREAM_TIMEOUT) expires while the generator waits
\* for the backend: "except TimeoutError" yields the 504 error event
ErrorAndGoOn(s) ==
  /\ pc[s] = "streaming"
  /\ ~Fixed(s)
  /\ "timeout" \in inputs.faults
  /\ Len(events[s]) <= inputs.maxChunks
  /\ events' = [events EXCEPT ![s] =
                  Append(@, [event |-> "error", code |-> 504])]
  /\ UNCHANGED <<rlvars, regvars, dbvars, pc, req, handle, history, intent,
                 user_data, parts, status, result, calls, issued, nreq,
                 fetch_log, inputs, classify_out, orphaned, lookups>>

StreamTimeout(s) ==
  /\ pc[s] = "streaming"
  /\ ~Fixed(s)
  /\ "timeout" \in inputs.faults
  /\ EndStream(s, 504)
  /\ UNCHANGED <<rlvars, dbvars, req, history, intent, user_data, parts,
                 calls, issued, nreq, fetch_log, inputs, classify_out>>

\* inside the second `async with`: add_message of the full answer (a failure
\* is logged only), then the done event
CommitStream(s) ==
  /\ pc[s] = "commit"
  /\ \E ok \in {TRUE} \cup {FALSE : x \in inputs.faults \cap {"db_assistant"}} :
       /\ messages' = IF ok
                      THEN add_message(messages, req[s].tid, "assistant",
                                       result[s], req[s].id, now)
                      ELSE messages
       /\ events' = [events EXCEPT ![s] =
            Append(@, [event |-> "done",
                       messageId |-> IF ok THEN Len(messages) + 1 ELSE 0,
                       fullAnswer |-> result[s]])]
  /\ locks' = Released(locks, handle[s])
  /\ Finish(s, 200)
  /\ UNCHANGED <<rlvars, thread_locks, threads, cache, req, handle, history,
                 intent, user_data, parts, result, calls, issued, nreq,
                 fetch_log, inputs, classify_out, orphaned, lookups>>

\* ---------------------------------------------------------------- scenarios
EmptyMap == [x \in {} |-> <<>>]

Anonymous == [userId |-> "", authToken |-> ""]
LoggedIn == [userId |-> "u1", authToken |-> "tok"]
UserIdOnly == [userId |-> "u1", authToken |-> ""]
TokenOnly == [userId |-> "", authToken |-> "tok"]

CardMsg == <<"show", "MY", "Card">>
StatusMsg == <<"check", "status">>
BothMsg == <<"my", "card", "my", "status">>
PlainMsg == <<"hello">>

ChatOk == [ok |-> TRUE, text |-> <<"a", "b", "c">>, at |-> "chat"]
ChatShort == [ok |-> TRUE, text |-> <<"a">>, at |-> "chat"]
ChatFails == [ok |-> FALSE, text |-> <<>>, at |-> "chat"]

LLMAnswers ==
  {[ok |-> TRUE, raw |-> <<"ecard">>],
   [ok |-> TRUE, raw |-> <<"status_check.">>],
   [ok |-> TRUE, raw |-> <<"GENERAL">>],
   [ok |-> TRUE, raw |-> <<"maybe", "ECARD">>],
   [ok |-> TRUE, raw |-> <<>>],
   [ok |-> FALSE, raw |-> <<>>]}

\* concurrent status requests of one signed-in user on two threads, with a
\* registry of MAX_THREAD_LOCKS
Concurrent ==
  [kinds |-> {"send", "stream"}, threads |-> {"thread-1", "thread-2"},
   msgs |-> {StatusMsg}, auths |-> {LoggedIn}, ips |-> {"ip1"},
   senders |-> NumSenders, maxMsgs |-> MaxMsgs, maxTime |-> 0,
   llm |-> {[ok |-> TRUE, raw |-> <<"GENERAL">>]}, fetch |-> {"ok"},
   gens |-> {ChatShort}, chunks |-> {<<"a">>}, maxChunks |-> 1,
   faults |-> {},
   capacity |-> MAX_THREAD_LOCKS, observe |-> FALSE]

\* one caller, every kind of message and of credentials
OneCaller ==
  [kinds |-> {"send", "stream"}, threads |-> {"thread-1"},
   msgs |-> {CardMsg, StatusMsg, BothMsg, PlainMsg},
   auths |-> {Anonymous, LoggedIn, UserIdOnly, TokenOnly}, ips |-> {"ip1"},
   senders |-> 1, maxMsgs |-> MaxMsgs, maxTime |-> 0,
   llm |-> LLMAnswers, fetch |-> {"ok", "error"},
   gens |-> {ChatOk}, chunks |-> {<<"a">>}, maxChunks |-> 1,
   faults |-> {},
   capacity |-> MAX_THREAD_LOCKS, observe |-> FALSE]

\* streamed answers with a generative backend that may fail or be too slow
Streaming ==
  [kinds |-> {"stream"}, threads |-> {"thread-1"},
   msgs |-> {PlainMsg}, auths |-> {Anonymous}, ips |-> {"ip1"},
   senders |-> NumSenders, maxMsgs |-> MaxMsgs, maxTime |-> 0,
   llm |-> {[ok |-> TRUE, raw |-> <<"GENERAL">>]}, fetch |-> {"ok"},
   gens |-> {ChatShort}, chunks |-> {<<"a">>, <<"b">>},
   maxChunks |-> MaxChunks, faults |-> {"gen", "timeout"},
   capacity |-> MAX_THREAD_LOCKS, observe |-> FALSE]

\* callers of the rate limiter; the routes behind it are not followed
Callers ==
  [kinds |-> {"create", "list", "options"}, threads |-> {"thread-1"},
   msgs |-> {PlainMsg}, auths |-> {Anonymous}, ips |-> {"ip1", "ip2"},
   senders |-> 1, maxMsgs |-> MaxRateCalls, maxTime |-> MaxTime,
   llm |-> {}, fetch |-> {}, gens |-> {}, chunks |-> {}, maxChunks |-> 0,
   faults |-> {},
   capacity |-> MAX_THREAD_LOCKS, observe |-> FALSE]

\* both paths on one thread; the generative backend may fail or be too slow,
\* and the store may fail on either INSERT
Faulty ==
  [kinds |-> {"send", "stream"}, threads |-> {"thread-1"},
   msgs |-> {PlainMsg}, auths |-> {Anonymous}, ips |-> {"ip1"},
   senders |-> NumSenders, maxMsgs |-> 1, maxTime |-> 0,
   llm |-> {[ok |-> TRUE, raw |-> <<"GENERAL">>]}, fetch |-> {"ok"},
   gens |-> {ChatShort, ChatFails}, chunks |-> {<<"a">>, <<"b">>},
   maxChunks |-> MaxChunks,
   faults |-> {"gen", "timeout", "db_user", "db_assistant"},
   capacity |-> MAX_THREAD_LOCKS, observe |-> FALSE]

\* one caller's requests on three thread ids with a registry of MaxLocks
\* places; the get_thread_lock calls are recorded
Registry ==
  [kinds |-> {"send", "stream"},
   threads |-> {"thread-1", "thread-2", "THREAD-1"},
   msgs |-> {PlainMsg}, auths |-> {Anonymous}, ips |-> {"ip1"},
   senders |-> 1, maxMsgs |-> MaxLookupCalls, maxTime |-> 0,
   llm |-> {[ok |-> TRUE, raw |-> <<"GENERAL">>]}, fetch |-> {"ok"},
   gens |-> {ChatShort}, chunks |-> {<<"a">>}, maxChunks |-> 1,
   faults |-> {},
   capacity |-> MaxLocks, observe |-> TRUE]

\* the three routes of a thread, on ids that are well formed or not, for
\* threads that exist or not
Routes ==
  [kinds |-> {"send", "stream", "list"},
   threads |-> {"thread-1", "thread-1\n", "not-a-uuid",
                "00000000-0000-0000-0000-000000000000"},
   msgs |-> {PlainMsg}, auths |-> {Anonymous}, ips |-> {"ip1"},
   senders |-> NumSenders, maxMsgs |-> 1, maxTime |-> 0,
   llm |-> {[ok |-> TRUE, raw |-> <<"GENERAL">>]}, fetch |-> {"ok"},
   gens |-> {ChatShort}, chunks |-> {<<"a">>}, maxChunks |-> 1,
   faults |-> {},
   capacity |-> MAX_THREAD_LOCKS, observe |-> FALSE]

\* one authenticated caller asks for their status on one thread while time
\* passes and the retention cleanup runs
Retention ==
  [kinds |-> {"send"}, threads |-> {"thread-1"},
   msgs |-> {StatusMsg}, auths |-> {LoggedIn}, ips |-> {"ip1"},
   senders |-> 1, maxMsgs |-> MaxMsgs, maxTime |-> MaxTime,
   llm |-> {[ok |-> TRUE, raw |-> <<"GENERAL">>]}, fetch |-> {"ok", "error"},
   gens |-> {ChatShort}, chunks |-> {<<"a">>}, maxChunks |-> 1,
   faults |-> {},
   capacity |-> MAX_THREAD_LOCKS, observe |-> FALSE]

\* signed-in and anonymous callers talk on two threads that compete for the
\* registry's only place, so that threads grow longer than either window
Talkers ==
  [kinds |-> {"send"}, threads |-> {"thread-1", "thread-2"},
   msgs |-> {PlainMsg}, auths |-> {Anonymous, LoggedIn}, ips |-> {"ip1"},
   senders |-> NumSenders, maxMsgs |-> MaxMsgs, maxTime |-> 0,
   llm |-> {[ok |-> TRUE, raw |-> <<"GENERAL">>]}, fetch |-> {"ok"},
   gens |-> {ChatShort}, chunks |-> {<<"a">>}, maxChunks |-> 1,
   faults |-> {},
   capacity |-> MAX_THREAD_LOCKS, observe |-> FALSE]

\* both paths with a generative backend whose output may be longer than
\* MAX_ANSWER_LENGTH, at once or in fragments
Lengthy ==
  [kinds |-> {"send", "stream"}, threads |-> {"thread-1"},
   msgs |-> {PlainMsg}, auths |-> {Anonymous}, ips |-> {"ip1"},
   senders |-> NumSenders, maxMsgs |-> 1, maxTime |-> 0,
   llm |-> {[ok |-> TRUE, raw |-> <<"GENERAL">>]}, fetch |-> {"ok"},
   gens |-> {ChatShort, ChatOk}, chunks |-> {<<"a">>, <<"b", "c">>},
   maxChunks |-> MaxChunks, faults |-> {},
   capacity |-> MAX_THREAD_LOCKS, observe |-> FALSE]

\* users who each create a thread, at the same time or one after another
Creators ==
  [kinds |-> {"create"}, threads |-> {"thread-1"},
   msgs |-> {PlainMsg}, auths |-> {Anonymous}, ips |-> {"ip1", "ip2"},
   senders |-> NumSenders, maxMsgs |-> MaxMsgs, maxTime |-> MaxTime,
   llm |-> {}, fetch |-> {}, gens |-> {}, chunks |-> {}, maxChunks |-> 0,
   faults |-> {},
   capacity |-> MAX_THREAD_LOCKS, observe |-> FALSE]

\* anonymous callers stream on two threads that compete for the registry's
\* only place: a lock is evicted while a request holds it or waits for it
Evicting ==
  [kinds |-> {"stream"}, threads |-> {"thread-1", "thread-2"},
   msgs |-> {PlainMsg}, auths |-> {Anonymous}, ips |-> {"ip1"},
   senders |-> NumSenders, maxMsgs |-> MaxMsgs, maxTime |-> 0,
   llm |-> {[ok |-> TRUE, raw |-> <<"GENERAL">>]}, fetch |-> {"ok"},
   gens |-> {ChatShort}, chunks |-> {<<"a">>}, maxChunks |-> 1,
   faults |-> {},
   capacity |-> MAX_THREAD_LOCKS, observe |-> FALSE]

InitState(scn, maxr, w) ==
  /\ now = 0
  /\ hits = EmptyMap
  /\ sweep_counter = 0
  /\ max_requests = maxr
  /\ window = w
  /\ rl_log = <<>>
  /\ thread_locks = <<>>
  /\ locks = <<>>
  /\ threads = [x \in {} |-> 0]
  /\ messages = <<>>
  /\ cache = EmptyMap
  /\ pc = [s \in Senders |-> "idle"]
  /\ req = [s \in Senders |-> NoReq]
  /\ handle = [s \in Senders |-> 0]
  /\ history = [s \in Senders |-> <<>>]
  /\ intent = [s \in Senders |-> None]
  /\ user_data = [s \in Senders |-> NoData]
  /\ parts = [s \in Senders |-> <<>>]
  /\ events = [s \in Senders |-> <<>>]
  /\ status = [s \in Senders |-> 0]
  /\ result = [s \in Senders |-> <<>>]
  /\ calls = [s \in Senders |-> NoCalls]
  /\ issued = [s \in Senders |-> 0]
  /\ nreq = 0
  /\ fetch_log = <<>>
  /\ orphaned = {}
  /\ lookups = <<>>
  /\ classify_out = [s \in Senders |-> NoLLM]
  /\ inputs = scn

\* the open system: two threads compete for the registry's only place; the
\* limiter admits all but the last request
Init == InitState(Concurrent, NumSenders * MaxMsgs - 1, 1)

Next ==
  \E s \in Senders :
    \/ Dispatch(s) \/ Enter(s) \/ Wake(s) \/ EnsureThread(s)
    \/ AddUserMessage(s) \/ ReadHistory(s) \/ ClassifyIntent(s)
    \/ CacheLookup(s) \/ Fetch(s) \/ SaveUserData(s)
    \/ Answer(s) \/ PersistAssistant(s)
    \/ StreamChunk(s) \/ StreamEnd(s) \/ CommitStream(s)

Spec == Init /\ [][Next]_vars

\* one caller, the whole input space of the classifier
InitOneCaller == InitState(OneCaller, MaxMsgs, 1)

NextOneCaller ==
  \E s \in Senders :
    \/ Dispatch(s) \/ Enter(s) \/ EnsureThread(s)
    \/ AddUserMessage(s) \/ ReadHistory(s) \/ ClassifyIntent(s)
    \/ CacheLookup(s) \/ Fetch(s) \/ SaveUserData(s)
    \/ Answer(s) \/ PersistAssistant(s)
    \/ StreamChunk(s) \/ StreamEnd(s) \/ CommitStream(s)

SpecOneCaller == InitOneCaller /\ [][NextOneCaller]_vars

\* streaming with failures
InitStreaming == InitState(Streaming, NumSenders * MaxMsgs - 1, 1)

NextStreaming ==
  \E s \in Senders :
    \/ Dispatch(s) \/ Enter(s) \/ Wake(s) \/ EnsureThread(s)
    \/ AddUserMessage(s) \/ ReadHistory(s) \/ ClassifyIntent(s)
    \/ StreamChunk(s) \/ StreamEnd(s) \/ StreamFail(s) \/ StreamTimeout(s)
    \/ CommitStream(s)

SpecStreaming == InitStreaming /\ [][NextStreaming]_vars

\* both paths with failures of the backend and of the store
InitFaults == InitState(Faulty, NumSenders, 1)

NextFaults ==
  \E s \in Senders :
    \/ Dispatch(s) \/ Enter(s) \/ Wake(s) \/ EnsureThread(s)
    \/ AddUserMessage(s) \/ ReadHistory(s) \/ ClassifyIntent(s)
    \/ Answer(s) \/ PersistAssistant(s)
    \/ StreamChunk(s) \/ StreamEnd(s) \/ StreamFail(s) \/ StreamTimeout(s)
    \/ CommitStream(s)

SpecFaults == InitFaults /\ [][NextFaults]_vars

\* the event loop runs every task that is ready, and every await of the
\* handlers returns (the generation is bounded by asyncio.timeout): a request
\* that can take its next step takes it
Progress(s) ==
  \/ Enter(s) \/ Wake(s) \/ EnsureThread(s)
  \/ AddUserMessage(s) \/ ReadHistory(s) \/ ClassifyIntent(s)
  \/ Answer(s) \/ PersistAssistant(s)
  \/ StreamChunk(s) \/ StreamEnd(s) \/ StreamFail(s) \/ StreamTimeout(s)
  \/ CommitStream(s)

FairSpecFaults == SpecFaults /\ \A s \in Senders : WF_vars(Progress(s))

\* every exit of the locked sections: the store may fail at each statement,
\* the generation may fail or run out of time
Aborting ==
  [kinds |-> {"send", "stream"}, threads |-> {"thread-1"},
   msgs |-> {PlainMsg}, auths |-> {LoggedIn}, ips |-> {"ip1"},
   senders |-> NumSenders, maxMsgs |-> 1, maxTime |-> 0,
   llm |-> {[ok |-> TRUE, raw |-> <<"GENERAL">>]}, fetch |-> {"ok"},
   gens |-> {ChatShort, ChatFails}, chunks |-> {<<"a">>},
   maxChunks |-> 1,
   faults |-> {"gen", "timeout", "db_thread", "db_user", "db_cache",
               "db_assistant"},
   capacity |-> MAX_THREAD_LOCKS, observe |-> FALSE]

InitAbort == InitState(Aborting, NumSenders, 1)

\* classify_and_prepare with its cache lookup and fetch
Resolve(s) == CacheLookup(s) \/ Fetch(s) \/ SaveUserData(s)

NextAbort ==
  \E s \in Senders : Dispatch(s) \/ Progress(s) \/ Resolve(s)

SpecAbort == InitAbort /\ [][NextAbort]_vars

FairSpecAbort ==
  SpecAbort /\ \A s \in Senders : WF_vars(Progress(s) \/ Resolve(s))

\* streamed requests whose consumer may go away at any moment
Disconnecting ==
  [kinds |-> {"stream"}, threads |-> {"thread-1"},
   msgs |-> {PlainMsg}, auths |-> {Anonymous}, ips |-> {"ip1"},
   senders |-> NumSenders, maxMsgs |-> MaxMsgs, maxTime |-> 0,
   llm |-> {[ok |-> TRUE, raw |-> <<"GENERAL">>]}, fetch |-> {"ok"},
   gens |-> {ChatShort}, chunks |-> {<<"a">>}, maxChunks |-> 1,
   faults |-> {},
   capacity |-> MAX_THREAD_LOCKS, observe |-> FALSE]

InitCancel == InitState(Disconnecting, NumSenders * MaxMsgs - 1, 1)

NextCancel ==
  \E s \in Senders :
    \/ Dispatch(s) \/ Enter(s) \/ Wake(s) \/ EnsureThread(s)
    \/ AddUserMessage(s) \/ ReadHistory(s) \/ ClassifyIntent(s)
    \/ StreamChunk(s) \/ StreamEnd(s) \/ CommitStream(s)
    \/ Disconnect(s)

SpecCancel == InitCancel /\ [][NextCancel]_vars

\* a caller reads pages of threads whose rows are in the store already
Paging ==
  [kinds |-> {"list"}, threads |-> {"thread-1", "thread-2"},
   msgs |-> {PlainMsg}, auths |-> {Anonymous}, ips |-> {"ip1"},
   senders |-> 1, maxMsgs |-> MaxMsgs, maxTime |-> 1,
   llm |-> {}, fetch |-> {}, gens |-> {}, chunks |-> {}, maxChunks |-> 0,
   faults |-> {},
   capacity |-> MAX_THREAD_LOCKS, observe |-> FALSE]

\* the tables of at most MaxRows rows, in insertion order: created_at is
\* datetime('now') of the insert, the wall clock, which may have been set
\* back between two inserts
StoredTables ==
  UNION {[1..n -> [thread : Paging.threads, created_at : 0..Paging.maxTime]] :
           n \in 0..MaxRows}

InitPages ==
  /\ \E tbl \in StoredTables :
       messages = [k \in 1..Len(tbl) |->
                     [id |-> k, thread |-> tbl[k].thread, role |-> "user",
                      content |-> PlainMsg, by |-> 0,
                      created_at |-> tbl[k].created_at]]
  /\ threads = [t \in Paging.threads |-> 1]
  /\ now = Paging.maxTime
  /\ hits = EmptyMap
  /\ sweep_counter = 0
  /\ max_requests = 1
  /\ window = 1
  /\ rl_log = <<>>
  /\ thread_locks = <<>>
  /\ locks = <<>>
  /\ cache = EmptyMap
  /\ pc = [s \in Senders |-> "idle"]
  /\ req = [s \in Senders |-> NoReq]
  /\ handle = [s \in Senders |-> 0]
  /\ history = [s \in Senders |-> <<>>]
  /\ intent = [s \in Senders |-> None]
  /\ user_data = [s \in Senders |-> NoData]
  /\ parts = [s \in Senders |-> <<>>]
  /\ events = [s \in Senders |-> <<>>]
  /\ status = [s \in Senders |-> 0]
  /\ result = [s \in Senders |-> <<>>]
  /\ calls = [s \in Senders |-> NoCalls]
  /\ issued = [s \in Senders |-> 0]
  /\ nreq = 0
  /\ fetch_log = <<>>
  /\ orphaned = {}
  /\ lookups = <<>>
  /\ classify_out = [s \in Senders |-> NoLLM]
  /\ inputs = Paging

NextPages == \E s \in Senders : Dispatch(s) \/ GetMessages(s)

SpecPages == InitPages /\ [][NextPages]_vars

\* the lock registry under requests on more thread ids than it has places
InitRegistry == InitState(Registry, MaxLookupCalls, 1)

NextRegistry ==
  \E s \in Senders :
    \/ Dispatch(s) \/ Enter(s) \/ EnsureThread(s)
    \/ AddUserMessage(s) \/ ReadHistory(s) \/ ClassifyIntent(s)
    \/ Answer(s) \/ PersistAssistant(s)
    \/ StreamChunk(s) \/ StreamEnd(s) \/ CommitStream(s)

SpecRegistry == InitRegistry /\ [][NextRegistry]_vars

\* send, stream and list requests on valid and invalid thread ids
InitRoutes == InitState(Routes, NumSenders, 1)

NextRoutes ==
  \E s \in Senders :
    \/ Dispatch(s) \/ GetMessages(s) \/ Enter(s) \/ Wake(s) \/ EnsureThread(s)
    \/ AddUserMessage(s) \/ ReadHistory(s) \/ ClassifyIntent(s)
    \/ Answer(s) \/ PersistAssistant(s)
    \/ StreamChunk(s) \/ StreamEnd(s) \/ CommitStream(s)

SpecRoutes == InitRoutes /\ [][NextRoutes]_vars

\* requests of one user on a thread, the clock and the retention cleanup
InitRetention == InitState(Retention, MaxMsgs, MaxTime + 1)

NextRetention ==
  \/ Tick
  \/ PeriodicCleanup
  \/ \E s \in Senders :
       \/ Dispatch(s) \/ Enter(s) \/ EnsureThread(s)
       \/ AddUserMessage(s) \/ ReadHistory(s) \/ ClassifyIntent(s)
       \/ CacheLookup(s) \/ Fetch(s) \/ SaveUserData(s)
       \/ Answer(s) \/ PersistAssistant(s)

SpecRetention == InitRetention /\ [][NextRetention]_vars

\* conversations that outgrow the history windows
InitHistory == InitState(Talkers, NumSenders * MaxMsgs, 1)

NextHistory ==
  \E s \in Senders :
    \/ Dispatch(s) \/ Enter(s) \/ Wake(s) \/ EnsureThread(s)
    \/ AddUserMessage(s) \/ ReadHistory(s) \/ ClassifyIntent(s)
    \/ CacheLookup(s) \/ Fetch(s) \/ SaveUserData(s)
    \/ Answer(s) \/ PersistAssistant(s)

SpecHistory == InitHistory /\ [][NextHistory]_vars

\* answers longer than the budget
InitLengthy == InitState(Lengthy, NumSenders, 1)

NextLengthy ==
  \E s \in Senders :
    \/ Dispatch(s) \/ Enter(s) \/ Wake(s) \/ EnsureThread(s)
    \/ AddUserMessage(s) \/ ReadHistory(s) \/ ClassifyIntent(s)
    \/ Answer(s) \/ PersistAssistant(s)
    \/ StreamChunk(s) \/ StreamEnd(s) \/ CommitStream(s)

SpecLengthy == InitLengthy /\ [][NextLengthy]_vars

\* thread creation against the clock
InitCreate == InitState(Creators, NumSenders * MaxMsgs, 1)

NextCreate == Tick \/ \E s \in Senders : Dispatch(s) \/ CreateThread(s)

SpecCreate == InitCreate /\ [][NextCreate]_vars

\* eviction of locks in use, with the scheduling of the event loop
InitEvict == InitState(Evicting, NumSenders * MaxMsgs - 1, 1)

NextEvict ==
  \E s \in Senders :
    \/ Dispatch(s) \/ Enter(s) \/ Wake(s) \/ EnsureThread(s)
    \/ AddUserMessage(s) \/ ReadHistory(s) \/ ClassifyIntent(s)
    \/ StreamChunk(s) \/ StreamEnd(s) \/ CommitStream(s)

SpecEvict == InitEvict /\ [][NextEvict]_vars

FairSpecEvict == SpecEvict /\ \A s \in Senders : WF_vars(Progress(s))

\* two requests of one caller in flight at once
Burst ==
  [kinds |-> {"create", "list"}, threads |-> {"thread-1"},
   msgs |-> {PlainMsg}, auths |-> {Anonymous}, ips |-> {"ip1"},
   senders |-> NumSenders, maxMsgs |-> MaxMsgs, maxTime |-> MaxTime,
   llm |-> {}, fetch |-> {}, gens |-> {}, chunks |-> {}, maxChunks |-> 0,
   faults |-> {},
   capacity |-> MAX_THREAD_LOCKS, observe |-> FALSE]

\* the rate limiter alone
InitRate ==
  \E maxr \in 1..2, w \in 1..2 : InitState(Callers, maxr, w)

NextRate == Tick \/ \E s \in Senders : Dispatch(s) \/ CallNext(s)

SpecRate == InitRate /\ [][NextRate]_vars

\* more callers than the limiter tracks without sweeping
Sweeping ==
  [kinds |-> {"create", "list"}, threads |-> {"thread-1"},
   msgs |-> {PlainMsg}, auths |-> {Anonymous}, ips |-> {"ip1", "ip2", "ip3"},
   senders |-> 1, maxMsgs |-> MaxRateCalls, maxTime |-> MaxTime,
   llm |-> {}, fetch |-> {}, gens |-> {}, chunks |-> {}, maxChunks |-> 0,
   faults |-> {},
   capacity |-> MAX_THREAD_LOCKS, observe |-> FALSE]

InitSweep == \E w \in 1..2 : InitState(Sweeping, 2, w)

SpecSweep == InitSweep /\ [][NextRate]_vars

\* the rate limiter under overlapping requests of one caller
InitBurst == \E w \in 1..2 : InitState(Burst, 1, w)

SpecBurst == InitBurst /\ [][NextRate]_vars

\* plain and streamed requests that overlap on one thread
Overlapping ==
  [kinds |-> {"send", "stream"}, threads |-> {"thread-1"},
   msgs |-> {PlainMsg}, auths |-> {Anonymous}, ips |-> {"ip1"},
   senders |-> NumSenders, maxMsgs |-> MaxMsgs, maxTime |-> 0,
   llm |-> {[ok |-> TRUE, raw |-> <<"GENERAL">>]}, fetch |-> {"ok"},
   gens |-> {ChatShort}, chunks |-> {<<"a">>}, maxChunks |-> 1,
   faults |-> {},
   capacity |-> MAX_THREAD_LOCKS, observe |-> FALSE]

InitOverlap == InitState(Overlapping, NumSenders * MaxMsgs - 1, 1)

NextOverlap ==
  \E s \in Senders :
    \/ Dispatch(s) \/ Enter(s) \/ Wake(s) \/ EnsureThread(s)
    \/ AddUserMessage(s) \/ ReadHistory(s) \/ ClassifyIntent(s)
    \/ Answer(s) \/ PersistAssistant(s)
    \/ StreamChunk(s) \/ StreamEnd(s) \/ CommitStream(s)

SpecOverlap == InitOverlap /\ [][NextOverlap]_vars

\* ------------------------------------------------------------------ claims
\* rows of table messages written by request i with the given role
RowsBy(i, role) ==
  {k \in 1..Len(messages) : messages[k].by = i /\ messages[k].role = role}

\* the request of slot s is past classify_and_prepare
Resolved(s) ==
  /\ pc[s] \in {"compose", "add_assistant", "streaming", "commit_wait",
                "commit", "done"}
  /\ status[s] \in {0, 200}

Succeeded(s) == pc[s] = "done" /\ status[s] = 200

Quiescent == \A s \in Senders : pc[s] \in {"idle", "done"}

AdmittedCount == Cardinality({i \in 1..Len(rl_log) : rl_log[i].code = 200})

\* C1: two requests on the same thread id are never inside their locked
\* sections at the same time unless the thread's lock was evicted from the
\* registry while it was held or awaited; a request inside a locked section
\* holds its lock, and no lock is held by two requests.
C1_MutualExclusion ==
  /\ \A s \in Senders : InLocked(s) => locks[handle[s]].locked
  /\ \A s1, s2 \in Senders :
       (s1 # s2 /\ InLocked(s1) /\ InLocked(s2)) =>
         /\ handle[s1] # handle[s2]
         /\ req[s1].tid = req[s2].tid => req[s1].tid \in orphaned

\* one request is inside the locked section of a thread whose lock is still
\* registered, another request on the same thread queues for the same lock
C1_Witness ==
  \E s1, s2 \in Senders :
    /\ InLocked(s1) /\ pc[s2] \in WaitingPcs
    /\ handle[s1] = handle[s2] /\ req[s1].tid = req[s2].tid
    /\ req[s1].tid \notin orphaned

\* fetch_user_data calls made for thread tid
FetchesFor(tid) == {k \in 1..Len(fetch_log) : fetch_log[k].tid = tid}

FetchedOnce(s) ==
  /\ Cardinality(FetchesFor(req[s].tid)) = 1
  /\ \A k \in FetchesFor(req[s].tid) :
       calls[s].fetch = (IF fetch_log[k].by = req[s].id THEN 1 ELSE 0)
  /\ user_data[s].present
  /\ <<req[s].tid, req[s].userId>> \in DOMAIN cache
  /\ calls[s].fetch = 0 =>
       user_data[s] = get_cached_user_data(cache, req[s].tid, req[s].userId)

C3_NoLostOrDuplicatedWrites ==
  /\ \A i \in 1..nreq :
       Cardinality(RowsBy(i, "user")) <= 1 /\ Cardinality(RowsBy(i, "assistant")) <= 1
  /\ \A s \in Senders : Succeeded(s) =>
       /\ \E k \in RowsBy(req[s].id, "user") :
            messages[k].thread = req[s].tid /\ messages[k].content = req[s].msg
       /\ \E k \in RowsBy(req[s].id, "assistant") :
            messages[k].thread = req[s].tid /\ messages[k].content = result[s]
  /\ Quiescent => Len(messages) = 2 * AdmittedCount

\* all admitted requests went to one thread and have ended; two of them were
\* in flight together
C3_Witness ==
  /\ Quiescent /\ AdmittedCount = NumSenders * MaxMsgs - 1
  /\ \A k \in 1..Len(messages) : messages[k].thread = "thread-1"
  /\ Len(messages) = 2 * AdmittedCount
  /\ \E k \in 1..Len(messages) : messages[k].by > messages[1].by

\* the thread's rows hold the user row of request i directly followed by the
\* assistant row of request i
Adjacent(i, tid) ==
  LET rows == ThreadMessages(messages, tid) IN
  \E k \in 1..(Len(rows) - 1) :
    /\ rows[k].by = i /\ rows[k].role = "user"
    /\ rows[k + 1].by = i /\ rows[k + 1].role = "assistant"

\* C4 as stated: the user row of every successful non-streaming request is
\* directly followed, in its thread, by the assistant row of the same request.
C4_Original ==
  \A s \in Senders :
    (Succeeded(s) /\ req[s].kind = "send") => Adjacent(req[s].id, req[s].tid)

\* C4 amended: the same, for a thread whose lock was not evicted from the
\* registry while it was held or awaited.
C4_SequentialUnlessEvicted ==
  \A s \in Senders :
    (Succeeded(s) /\ req[s].kind = "send" /\ req[s].tid \notin orphaned)
      => Adjacent(req[s].id, req[s].tid)

\* two successful non-streaming requests on one thread, in flight together:
\* the one issued later wrote first
C4_Witness ==
  \E s1, s2 \in Senders :
    /\ s1 # s2 /\ Succeeded(s1) /\ Succeeded(s2)
    /\ req[s1].kind = "send" /\ req[s2].kind = "send"
    /\ req[s1].tid = req[s2].tid /\ req[s1].tid \notin orphaned
    /\ req[s1].id < req[s2].id
    /\ \E k1 \in RowsBy(req[s1].id, "user"), k2 \in RowsBy(req[s2].id, "user") :
         k2 < k1

\* what dispatch answered to the POST requests of caller ip, in call order
PostsOf(ip) == SelectSeq(rl_log, LAMBDA e : e.ip = ip /\ e.method = "POST")

OnlyPosts(ip) ==
  \A k \in 1..Len(rl_log) : rl_log[k].ip = ip => rl_log[k].method # "GET"

\* admitted calls before the k-th that are younger than the window at its time
RecentAdmitted(L, k) ==
  {j \in 1..(k - 1) : L[j].code = 200 /\ L[k].t - L[j].t < window}

\* C5: for a caller that issues only POST requests, a request is rejected
\* exactly when max_requests earlier admitted requests are younger than the
\* window; so of max_requests + 1 requests within one window the first
\* max_requests are admitted and the last is rejected, and a request issued
\* when every earlier admission is at least a window old is admitted.
C5_SlidingWindow ==
  \A ip \in inputs.ips : OnlyPosts(ip) =>
    LET L == PostsOf(ip) IN
    /\ \A k \in 1..Len(L) :
         (L[k].code = 429) <=> (Cardinality(RecentAdmitted(L, k)) >= max_requests)
    /\ \A k \in 1..Len(L) : L[k].code \in {200, 429}
    /\ (Len(L) > max_requests /\ L[max_requests + 1].t - L[1].t < window) =>
         /\ \A k \in 1..max_requests : L[k].code = 200
         /\ L[max_requests + 1].code = 429
    /\ \A k \in 1..Len(L) :
         (\A j \in 1..(k - 1) : L[j].code = 200 => L[k].t - L[j].t >= window)
           => L[k].code = 200

\* a caller filled its window, was rejected once, and was admitted again
\* after the window had passed
C5_Witness ==
  \E ip \in inputs.ips :
    /\ OnlyPosts(ip)
    /\ LET L == PostsOf(ip) IN
       /\ Len(L) = max_requests + 2
       /\ L[max_requests + 1].t - L[1].t < window
       /\ \A k \in 1..max_requests : L[k].code = 200
       /\ L[max_requests + 1].code = 429
       /\ L[max_requests + 2].code = 200
       /\ L[max_requests + 2].t - L[max_requests].t >= window

\* C6: the step in which dispatch rejects a request changes no bucket and not
\* the sweep counter, touches neither the lock registry nor the store, makes
\* no classification or fetch call, and ends the request with status 429.
C6_RejectionChangesNothing ==
  [][(/\ Len(rl_log') = Len(rl_log) + 1
      /\ rl_log'[Len(rl_log')].code = 429) =>
       /\ hits' = hits /\ sweep_counter' = sweep_counter
       /\ thread_locks' = thread_locks /\ locks' = locks /\ orphaned' = orphaned
       /\ threads' = threads /\ messages' = messages /\ cache' = cache
       /\ fetch_log' = fetch_log
       /\ \E s \in Senders :
            /\ req'[s].id = nreq' /\ pc'[s] = "done" /\ status'[s] = 429
            /\ status'[s] \notin {400, 500, 502, 504}
            /\ calls'[s] = NoCalls /\ handle'[s] = 0 /\ events'[s] = <<>>
            /\ \A t \in Senders \ {s} :
                 pc'[t] = pc[t] /\ status'[t] = status[t] /\ calls'[t] = calls[t]
    ]_vars

\* a request was rejected while two callers had a bucket and the sweep
\* counter was running
C6_Witness ==
  \E s \in Senders :
    /\ pc[s] = "done" /\ status[s] = 429
    /\ rl_log[Len(rl_log)].code = 429
    /\ Cardinality(DOMAIN hits) = 2
    /\ sweep_counter > 0

\* the request of slot s is past _classify_intent
Classified(s) ==
  /\ pc[s] \in {"cache_lookup", "fetch", "save", "compose", "add_assistant",
                "streaming", "commit_wait", "commit", "done"}
  /\ status[s] \in {0, 200}

Composed(s) ==
  /\ pc[s] \in {"add_assistant", "commit_wait", "commit", "done"}
  /\ status[s] \in {0, 200}

\* the request of slot s made no call to the generative backend or the
\* record source, and wrote no cache entry
NoBackendCalls(s) ==
  /\ calls[s].chat = 0 /\ calls[s].chat_stream = 0
  /\ calls[s].fetch = 0 /\ calls[s].save = 0
  /\ pc[s] \notin {"cache_lookup", "fetch", "save"}
  /\ \A k \in 1..Len(fetch_log) : fetch_log[k].by # req[s].id

\* the request of slot s answered text, and persisted it as its assistant row
Answered(s, text) ==
  /\ Composed(s) => result[s] = text
  /\ Succeeded(s) =>
       /\ \E k \in RowsBy(req[s].id, "assistant") :
            messages[k].content = text /\ messages[k].thread = req[s].tid
       /\ req[s].kind = "stream" =>
            /\ Len(events[s]) = 2
            /\ events[s][1] = [event |-> "chunk", content |-> text]
            /\ events[s][2].event = "done" /\ events[s][2].fullAnswer = text
            /\ events[s][2].messageId \in RowsBy(req[s].id, "assistant")

\* C7: a request whose userId or authToken is empty and whose message holds a
\* card or status keyword is classified LOGIN_REQUIRED, calls neither chat,
\* chat_stream, classify nor the record source, and answers and persists
\* exactly the login sentinel, streamed or not.
C7_LoginSentinel ==
  \A s \in Senders :
    (/\ Classified(s)
     /\ req[s].userId = "" \/ req[s].authToken = ""
     /\ req[s].msg \in {CardMsg, StatusMsg, BothMsg}) =>
      /\ intent[s] = "LOGIN_REQUIRED"
      /\ NoBackendCalls(s) /\ calls[s].classify = 0
      /\ Answered(s, <<"<<LOGIN_MODAL_REQUIRED>>">>)

\* a streamed status request with a userId but no authToken has ended
C7_Witness ==
  \E s \in Senders :
    /\ Succeeded(s) /\ req[s].kind = "stream"
    /\ req[s].userId # "" /\ req[s].authToken = ""
    /\ req[s].msg = StatusMsg
    /\ result[s] = <<"<<LOGIN_MODAL_REQUIRED>>">>
    /\ RowsBy(req[s].id, "assistant") # {}

\* C8: an authenticated request whose message holds a card keyword, or that
\* the generative classifier labelled ECARD, answers and persists exactly the
\* card sentinel and makes no fetch, no cache write and no chat call.
C8_CardSentinel ==
  \A s \in Senders :
    (/\ Classified(s)
     /\ req[s].userId # "" /\ req[s].authToken # ""
     /\ req[s].msg = CardMsg \/ intent[s] = "ECARD") =>
      /\ intent[s] = "ECARD"
      /\ NoBackendCalls(s)
      /\ Answered(s, <<"ECARD">>)

\* a streamed request without keyword, labelled ECARD by the classifier, has
\* ended
C8_Witness ==
  \E s \in Senders :
    /\ Succeeded(s) /\ req[s].kind = "stream"
    /\ req[s].userId # "" /\ req[s].authToken # ""
    /\ req[s].msg = PlainMsg /\ calls[s].classify = 1
    /\ result[s] = <<"ECARD">>
    /\ RowsBy(req[s].id, "assistant") # {}

\* the stream of slot s has ended with the error event of the given code
EndedWith(s, code) ==
  /\ pc[s] = "done" /\ req[s].kind = "stream"
  /\ events[s] # <<>>
  /\ events[s][Len(events[s])] = [event |-> "error", code |-> code]

\* what the stream of slot s sent before its last event are chunk events
\* only, and the request has persisted its user row and nothing else
NothingCommitted(s) ==
  /\ \A k \in 1..(Len(events[s]) - 1) : events[s][k].event = "chunk"
  /\ RowsBy(req[s].id, "assistant") = {}
  /\ Cardinality(RowsBy(req[s].id, "user")) = 1

\* C9: when the stream's time budget expires the generator emits the 504
\* error event and ends, in a step that writes no row; a stream that ended
\* with the 504 event has sent no done event and no 502 event, and no
\* assistant row of that request is ever persisted.
C9_StreamTimeout ==
  /\ [](\A s \in Senders : EndedWith(s, 504) => NothingCommitted(s))
  /\ [][\A s \in Senders : StreamTimeout(s) =>
          /\ pc'[s] = "done"
          /\ events'[s] = Append(events[s], [event |-> "error", code |-> 504])
          /\ messages' = messages /\ locks' = locks
       ]_vars

\* a stream timed out after it had sent a fragment
C9_Witness ==
  \E s \in Senders :
    /\ EndedWith(s, 504) /\ Len(parts[s]) > 0
    /\ Len(events[s]) = Len(parts[s]) + 1
    /\ RowsBy(req[s].id, "assistant") = {}

\* C10: when answer_stream raises, after any number of fragments, the
\* generator emits the 502 error event and ends; a stream that ended with
\* the 502 event has sent no done event, and no assistant row of that request
\* is ever persisted; no step of the generation phase writes a row.
C10_StreamFailure ==
  /\ [](\A s \in Senders : EndedWith(s, 502) => NothingCommitted(s))
  /\ [][\A s \in Senders :
          /\ StreamFail(s) =>
               /\ pc'[s] = "done"
               /\ events'[s] = Append(events[s], [event |-> "error", code |-> 502])
          /\ (StreamFail(s) \/ StreamChunk(s)) => messages' = messages
       ]_vars

\* a stream failed after it had sent a fragment, and another failed before
\* its first
C10_Witness ==
  \E s1, s2 \in Senders :
    /\ EndedWith(s1, 502) /\ Len(parts[s1]) > 0
    /\ EndedWith(s2, 502) /\ Len(parts[s2]) = 0
    /\ RowsBy(req[s1].id, "assistant") = {}
    /\ RowsBy(req[s2].id, "assistant") = {}

\* the stream of slot s has ended with an error event
Failed(s) == \E code \in {502, 504} : EndedWith(s, code)

\* the fragments the stream of slot s has sent as chunk events, in order
ChunksSent(s) ==
  LET cs == SelectSeq(events[s], LAMBDA e : e.event = "chunk")
  IN [i \in 1..Len(cs) |-> cs[i].content]

\* C11: an assistant row is written by one INSERT, in the step that ends its
\* request with success; the row of a streamed request holds the in-order
\* concatenation of all fragments the stream yielded and is written after the
\* stream was exhausted, the row of a non-streamed request holds the reply
\* returned; a request that is still generating or whose generation failed
\* has no assistant row.
C11_CompleteAssistantMessage ==
  /\ [](\A s \in Senders :
         /\ \A k \in RowsBy(req[s].id, "assistant") :
              /\ Succeeded(s) /\ messages[k].thread = req[s].tid
              /\ req[s].kind = "send" => messages[k].content = result[s]
              /\ req[s].kind = "stream" =>
                   /\ messages[k].content = Join(parts[s])
                   /\ ChunksSent(s) = parts[s]
                   /\ \A e \in 1..Len(events[s]) : events[s][e].event # "error"
         /\ (pc[s] \in {"compose", "streaming", "commit_wait"} \/ Failed(s)
               \/ status[s] \in {500, 502})
              => RowsBy(req[s].id, "assistant") = {})
  /\ [][messages' # messages =>
          /\ Len(messages') = Len(messages) + 1
          /\ SubSeq(messages', 1, Len(messages)) = messages
          /\ messages'[Len(messages')].role = "assistant" =>
               \E s \in Senders :
                 /\ messages'[Len(messages')].by = req[s].id
                 /\ pc[s] = (IF req[s].kind = "stream" THEN "commit"
                                                       ELSE "add_assistant")
                 /\ messages'[Len(messages')].content =
                      (IF req[s].kind = "stream" THEN Join(parts[s])
                                                 ELSE result[s])
       ]_vars

\* a stream of two different fragments was persisted whole, and another
\* stream on the same thread failed after a fragment and persisted nothing
C11_Witness ==
  \E s1, s2 \in Senders :
    /\ Succeeded(s1) /\ req[s1].kind = "stream"
    /\ Len(parts[s1]) = 2 /\ parts[s1][1] # parts[s1][2]
    /\ \E k \in RowsBy(req[s1].id, "assistant") :
         messages[k].content = parts[s1][1] \o parts[s1][2]
    /\ Failed(s2) /\ Len(parts[s2]) > 0 /\ req[s2].tid = req[s1].tid
    /\ RowsBy(req[s2].id, "assistant") = {}

Terminal(e) == e.event \in {"done", "error"}

\* the request of slot s has a streamed response (event_generator runs)
Streams(s) ==
  /\ req[s].kind = "stream"
  /\ pc[s] \in {"streaming", "commit_wait", "commit"}
       \/ (pc[s] = "done" /\ status[s] = 200)

\* C12: the events of a streamed response are chunk events followed, once
\* the stream has ended, by exactly one done or error event, which is the
\* last event; nothing is emitted after it; a response that is produced ends
\* with its terminal event.
C12_EventProtocol ==
  /\ [](\A s \in Senders :
         /\ \A k \in 1..(Len(events[s]) - 1) : events[s][k].event = "chunk"
         /\ \A k \in 1..Len(events[s]) :
              events[s][k].event \in {"chunk", "done", "error"}
         /\ events[s] # <<>> => Streams(s)
         /\ (Streams(s) /\ pc[s] # "done") =>
              \A k \in 1..Len(events[s]) : ~Terminal(events[s][k])
         /\ (Streams(s) /\ pc[s] = "done") =>
              events[s] # <<>> /\ Terminal(events[s][Len(events[s])]))
  /\ [][\A s \in Senders :
          (events[s] # <<>> /\ Terminal(events[s][Len(events[s])])
           /\ req'[s] = req[s]) => events'[s] = events[s]]_vars
  /\ \A s \in Senders :
       (pc[s] = "streaming") ~>
         (/\ pc[s] = "done" /\ events[s] # <<>>
          /\ Terminal(events[s][Len(events[s])]))

\* one stream sent two chunks and done, another sent the error event alone
C12_Witness ==
  \E s1, s2 \in Senders :
    /\ pc[s1] = "done" /\ Len(events[s1]) = 3
    /\ events[s1][1].event = "chunk" /\ events[s1][2].event = "chunk"
    /\ events[s1][3].event = "done"
    /\ pc[s2] = "done" /\ Len(events[s2]) = 1
    /\ events[s2][1].event = "error"

\* the done events of the stream of slot s
DoneEvents(s) ==
  {events[s][k] : k \in {j \in 1..Len(events[s]) : events[s][j].event = "done"}}

\* C13: every done event carries as fullAnswer the in-order concatenation of
\* the contents of the chunk events sent before it on that stream, and as
\* messageId the id of an assistant row of that thread whose content is that
\* fullAnswer.
C13_DoneEvent ==
  \A s \in Senders : \A e \in DoneEvents(s) :
    /\ e.fullAnswer = Join(ChunksSent(s))
    /\ e.messageId \in 1..Len(messages)
    /\ messages[e.messageId].role = "assistant"
    /\ messages[e.messageId].thread = req[s].tid
    /\ messages[e.messageId].content = e.fullAnswer

\* a stream of two fragments ended with a done event although the INSERT of
\* its assistant row had failed
C13_Witness ==
  \E s \in Senders : \E e \in DoneEvents(s) :
    /\ Len(parts[s]) = 2 /\ e.fullAnswer = Join(parts[s])
    /\ e.messageId = 0
    /\ RowsBy(req[s].id, "assistant") = {}

\* the requests inside a locked section entered through lock h
Holders(h) == {s \in Senders : InLocked(s) /\ handle[s] = h}

\* C14: a lock is locked exactly when one request is inside a locked section
\* entered through it, so a request holds at most one lock and a streaming
\* request holds none from the end of classify_and_prepare until its stream
\* is exhausted: a lock that is taken while a request generates is held by
\* another request. A request takes a lock only when it holds none, and the
\* lock taken after the stream is given back in the step that persists the
\* assistant row, which is the only thing done under it.
C14_NoLockDuringGeneration ==
  /\ [](\A h \in 1..Len(locks) :
         Cardinality(Holders(h)) = (IF locks[h].locked THEN 1 ELSE 0))
  /\ [](\A s \in Senders :
         (pc[s] \in {"streaming", "commit_wait"} /\ locks[handle[s]].locked) =>
           \E s2 \in Senders \ {s} : InLocked(s2) /\ handle[s2] = handle[s])
  /\ [][\A s \in Senders :
          /\ (pc[s] \notin LockedPcs /\ pc'[s] \in LockedPcs) =>
               /\ pc[s] \in {"admitted", "waiting", "streaming", "commit_wait"}
               /\ pc'[s] \in {"ensure", "commit"}
               /\ locks'[handle'[s]].locked
          /\ StreamChunk(s) => locks' = locks /\ thread_locks' = thread_locks
          /\ (pc[s] = "commit" /\ pc'[s] # "commit") =>
               /\ pc'[s] = "done" /\ ~locks'[handle[s]].locked
               /\ Len(messages') <= Len(messages) + 1
               /\ \A k \in (Len(messages) + 1)..Len(messages') :
                    /\ messages'[k].role = "assistant"
                    /\ messages'[k].by = req[s].id
       ]_vars

\* while a request was streaming, a later request on the same thread took
\* the same lock, wrote both its rows and ended
C14_Witness ==
  \E s1, s2 \in Senders :
    /\ pc[s1] = "streaming" /\ req[s1].kind = "stream" /\ parts[s1] # <<>>
    /\ Succeeded(s2) /\ req[s2].kind = "send" /\ req[s2].tid = req[s1].tid
    /\ handle[s2] = handle[s1] /\ req[s2].id > req[s1].id
    /\ RowsBy(req[s2].id, "assistant") # {}
    /\ \E k1 \in RowsBy(req[s1].id, "user"), k2 \in RowsBy(req[s2].id, "user") :
         k1 < k2

\* the thread ids looked up so far
LookedUp == {lookups[k].tid : k \in 1..Len(lookups)}

\* C15: the registry never holds more than MAX_THREAD_LOCKS handles, and at
\* most one handle for a thread id, whatever thread ids were looked up.
C15_RegistryBounded ==
  /\ Len(thread_locks) <= inputs.capacity
  /\ \A i, j \in 1..Len(thread_locks) :
       thread_locks[i].tid = thread_locks[j].tid => i = j

\* the registry is full after lookups of more thread ids than it has places
C15_Witness ==
  /\ Len(thread_locks) = inputs.capacity
  /\ Cardinality(LookedUp) > inputs.capacity
  /\ Len(lookups) > Cardinality(LookedUp)

\* the reference LRU map, from the record of lookups alone: the index of the
\* last of the first n lookups that asked for tid (0 if none did)
LastLookup(tid, n) ==
  IF \E k \in 1..n : lookups[k].tid = tid
  THEN CHOOSE k \in 1..n :
         lookups[k].tid = tid /\ \A j \in (k + 1)..n : lookups[j].tid # tid
  ELSE 0

\* the thread ids resident after n lookups: those of the inputs.capacity most
\* recent distinct lookups
Resident(n) ==
  LET seen == {lookups[k].tid : k \in 1..n} IN
  {tid \in seen :
     Cardinality({u \in seen : LastLookup(u, n) > LastLookup(tid, n)})
       < inputs.capacity}

\* C16: the registry is the reference LRU map of the lookups made so far. It
\* holds exactly the thread ids of the most recent distinct lookups, as many
\* as fit, ordered from least to most recently looked up, each with the lock
\* its last lookup returned; a lookup of a resident id returned the lock of
\* the previous lookup of that id, a lookup of an absent id returned a lock
\* no earlier lookup had returned.
C16_RegistryIsLRU ==
  LET n == Len(lookups) IN
  /\ {thread_locks[i].tid : i \in 1..Len(thread_locks)} = Resident(n)
  /\ Len(thread_locks) = Cardinality(Resident(n))
  /\ \A i \in 1..Len(thread_locks) :
       /\ thread_locks[i].lock = lookups[LastLookup(thread_locks[i].tid, n)].lock
       /\ \A j \in (i + 1)..Len(thread_locks) :
            LastLookup(thread_locks[i].tid, n) < LastLookup(thread_locks[j].tid, n)
  /\ \A k \in 1..n :
       IF lookups[k].tid \in Resident(k - 1)
       THEN lookups[k].lock = lookups[LastLookup(lookups[k].tid, k - 1)].lock
       ELSE \A j \in 1..(k - 1) : lookups[j].lock # lookups[k].lock

\* with two places: a lookup, a lookup of a second id, a lookup of the first
\* id again (same lock), then a lookup of a third id, which evicted the second
C16_Witness ==
  /\ inputs.capacity = 2 /\ Len(lookups) = 4
  /\ lookups[3].tid = lookups[1].tid /\ lookups[3].lock = lookups[1].lock
  /\ lookups[2].tid # lookups[1].tid
  /\ lookups[4].tid \notin {lookups[1].tid, lookups[2].tid}
  /\ Len(thread_locks) = 2
  /\ thread_locks[1].tid = lookups[1].tid
  /\ thread_locks[2].tid = lookups[4].tid

\* the counted (GET or POST) requests of caller ip that dispatch admitted
AdmissionsOf(ip) ==
  SelectSeq(rl_log, LAMBDA e : e.ip = ip /\ e.code = 200
                               /\ e.method \in {"GET", "POST"})

\* C17 as stated: every timestamp stored in a bucket is younger than the
\* window at every moment.
C17_Original ==
  \A ip \in DOMAIN hits : \A i \in 1..Len(hits[ip]) : now - hits[ip][i] < window

\* C17 amended: a bucket is written only when its caller is admitted, and
\* then holds only timestamps younger than the window at that moment, the
\* newest being the admission itself; between admissions it is left as it is
\* (older timestamps stay stored until the next admission or a sweep), so
\* every stored timestamp is within a window of the bucket's newest one.
C17_WithinWindowWhenWritten ==
  /\ [](\A ip \in DOMAIN hits :
         LET ts == hits[ip] IN
         /\ ts # <<>>
         /\ \A i \in 1..Len(ts) : ts[Len(ts)] - ts[i] < window /\ ts[i] <= now
         /\ \A i \in 1..(Len(ts) - 1) : ts[i] <= ts[i + 1]
         /\ AdmissionsOf(ip) # <<>>
         /\ ts[Len(ts)] = AdmissionsOf(ip)[Len(AdmissionsOf(ip))].t)
  /\ [][\A ip \in inputs.ips :
          IF Len(AdmissionsOf(ip)') > Len(AdmissionsOf(ip))
          THEN /\ ip \in DOMAIN hits'
               /\ \A i \in 1..Len(hits'[ip]) : now' - hits'[ip][i] < window'
          ELSE ip \in DOMAIN hits' =>
                 (ip \in DOMAIN hits /\ hits'[ip] = hits[ip])
       ]_vars

\* a caller was admitted twice, a window or more apart: its bucket holds the
\* second admission only, which by now is itself a window old
C17_Witness ==
  \E ip \in DOMAIN hits :
    LET L == AdmissionsOf(ip) IN
    /\ Len(L) = 2 /\ L[2].t - L[1].t >= window
    /\ hits[ip] = <<L[2].t>>
    /\ now - L[2].t >= window

\* the grammar of thread ids: the UUID form or thread-<digits>, in either case
InGrammar(tid) == MatchesUuid(Chars(tid)) \/ MatchesThread(Chars(tid))

\* the request of slot s reached its handler and the handler has acted
Handled(s) ==
  /\ req[s].kind \in {"send", "stream", "list"}
  /\ pc[s] \notin {"idle", "admitted"}
  /\ status[s] # 429

\* the request of slot s has left no trace in the registry or the store and
\* made no call
NoEffect(s) ==
  /\ handle[s] = 0
  /\ \A i \in 1..Len(thread_locks) : thread_locks[i].tid # req[s].tid
  /\ ~thread_exists(threads, req[s].tid)
  /\ \A k \in 1..Len(messages) :
       messages[k].by # req[s].id /\ messages[k].thread # req[s].tid
  /\ calls[s] = NoCalls /\ events[s] = <<>> /\ result[s] = <<>>

\* C18: a send, stream or list request whose thread id is not in the grammar
\* ends with status 400 and has touched no lock handle, created no thread,
\* persisted no message and made no classification, fetch or generation call.
C18_InvalidIdRejected ==
  \A s \in Senders :
    (Handled(s) /\ ~InGrammar(req[s].tid)) =>
      pc[s] = "done" /\ status[s] = 400 /\ NoEffect(s)

\* a request on the id "thread-1" followed by a newline was answered, and its
\* thread, its lock handle and its rows exist
C18_Witness ==
  \E s \in Senders :
    /\ ~InGrammar(req[s].tid) /\ validate_thread_id(req[s].tid)
    /\ Succeeded(s) /\ req[s].kind = "send"
    /\ thread_exists(threads, req[s].tid) /\ handle[s] > 0
    /\ RowsBy(req[s].id, "user") # {} /\ RowsBy(req[s].id, "assistant") # {}

\* what holds of C18: a request whose id _validate_thread_id refuses ends
\* with status 400 and without effect, in a step that changes neither the
\* registry nor the store
RejectedBeforeEffect ==
  /\ [](\A s \in Senders :
         (Handled(s) /\ ~validate_thread_id(req[s].tid)) =>
           pc[s] = "done" /\ status[s] = 400 /\ NoEffect(s))
  /\ [][\A s \in Senders :
          (pc[s] = "admitted" /\ pc'[s] # "admitted"
           /\ ~validate_thread_id(req[s].tid)) =>
            /\ status'[s] = 400
            /\ thread_locks' = thread_locks /\ locks' = locks
            /\ threads' = threads /\ messages' = messages /\ cache' = cache
            /\ fetch_log' = fetch_log /\ calls' = calls
       ]_vars

\* the request of slot s is a send or stream request that has passed
\* ensure_thread
Ensured(s) ==
  /\ req[s].kind \in {"send", "stream"}
  /\ pc[s] \in {"add_user", "read_history", "classify", "cache_lookup",
                "fetch", "save", "compose", "add_assistant", "streaming",
                "commit_wait", "commit"}
       \/ (pc[s] = "done" /\ status[s] \notin {400, 429})

ListedUnknown(s) ==
  /\ Handled(s) /\ req[s].kind = "list" /\ pc[s] = "done"
  /\ validate_thread_id(req[s].tid)
  /\ ~thread_exists(threads, req[s].tid)

\* C20: list-messages on a well-formed id of a thread that does not exist
\* ends with status 404 and without a page, and changes nothing in the store.
C20_ListUnknownThreadNotFound ==
  \A s \in Senders :
    ListedUnknown(s) =>
      /\ status[s] = 404 /\ result[s] = <<>>
      /\ \A k \in 1..Len(messages) : messages[k].thread # req[s].tid

\* list-messages on the id of no thread was answered 200 with an empty page
\* and total 0
C20_Witness ==
  \E s \in Senders :
    /\ ListedUnknown(s) /\ InGrammar(req[s].tid)
    /\ status[s] = 200 /\ Len(result[s]) = 1
    /\ result[s][1].messages = <<>> /\ result[s][1].total = 0

\* the fetch_user_data calls made for the pair (tid, uid), in call order
FetchesOf(tid, uid) ==
  SelectSeq(fetch_log, LAMBDA e : e.tid = tid /\ e.uid = uid)

\* the request of slot s went through _get_or_fetch_user_data
Resolving(s) ==
  /\ Resolved(s) /\ Authed(s)
  /\ intent[s] \in {"STATUS_CHECK", "GENERAL"}

\* C21: on a cache miss a fetch that succeeds is cached for (threadId, userId)
\* and returned; a fetch that fails yields none and writes no cache entry, so
\* a request served from the cache got the record of a successful fetch and
\* the request after a failed fetch fetches again.
C21_FailedFetchNotCached ==
  \A s \in Senders : Resolving(s) =>
    LET F == FetchesOf(req[s].tid, req[s].userId)
        key == <<req[s].tid, req[s].userId>>
    IN /\ F # <<>>
       /\ IF calls[s].fetch = 1
          THEN /\ F[Len(F)].by = req[s].id
               /\ IF F[Len(F)].outcome = "ok"
                  THEN /\ user_data[s] = fetch_user_data(req[s].userId, "ok")
                       /\ key \in DOMAIN cache
                       /\ get_cached_user_data(cache, req[s].tid,
                            req[s].userId) = user_data[s]
                  ELSE ~user_data[s].present /\ key \notin DOMAIN cache
          ELSE /\ F[Len(F)].outcome = "ok"
               /\ user_data[s] = fetch_user_data(req[s].userId, "ok")

\* the record source answered with errors, the aggregate was cached, and the
\* next request on the thread got it from the cache without a fetch
C21_Witness ==
  \E s \in Senders :
    LET F == FetchesOf(req[s].tid, req[s].userId) IN
    /\ Resolving(s) /\ calls[s].fetch = 0
    /\ Len(F) = 1 /\ F[1].outcome = "error" /\ F[1].by < req[s].id
    /\ user_data[s].present /\ user_data[s].errors
    /\ get_cached_user_data(cache, req[s].tid, req[s].userId) = user_data[s]

\* the fetch e has been written to the cache by the request that made it
Saved(e) == \A s \in Senders : req[s].id = e.by => pc[s] # "save"

\* C22: once an entry exists for (threadId, userId), every later resolve on
\* that key returns that entry's record and makes no fetch, as long as the
\* thread exists: there is one fetch per key, every resolved request holds
\* its record, and no step removes or changes an entry of an existing thread.
C22_CachedForThreadLifetime ==
  /\ [](\A s \in Senders : Resolving(s) =>
         LET F == FetchesOf(req[s].tid, req[s].userId) IN
         /\ Len(F) = 1
         /\ user_data[s] = fetch_user_data(req[s].userId, F[1].outcome))
  /\ [][\A key \in DOMAIN cache : thread_exists(threads', key[1]) =>
          /\ key \in DOMAIN cache'
          /\ cache'[key].data_json = cache[key].data_json]_vars

\* the entry of the key was written, the cleanup removed it while the thread
\* existed, and the next request on the thread fetched again
C22_Witness ==
  \E s \in Senders :
    LET F == FetchesOf(req[s].tid, req[s].userId) IN
    /\ Resolving(s) /\ calls[s].fetch = 1
    /\ Len(F) = 2 /\ F[1].by < req[s].id /\ F[2].by = req[s].id
    /\ thread_exists(threads, req[s].tid)

\* C23: every insert, replace or delete of a cache entry of thread T is made
\* by a task that holds T's thread lock: whenever the entry of a key changes,
\* some request on that thread is inside its locked section at the save step
\* of that key.
C23_CacheMutatedUnderLock ==
  [][\A key \in (DOMAIN cache) \cup (DOMAIN cache') :
       (key \in DOMAIN cache /\ key \in DOMAIN cache'
          => cache'[key] # cache[key])
       => \E s \in Senders :
            /\ InLocked(s) /\ pc[s] = "save"
            /\ locks[handle[s]].locked
            /\ key = <<req[s].tid, req[s].userId>>]_vars

\* a saved entry is gone while a request on its thread holds the thread's
\* lock and has not reached the cache yet: the cleanup, which holds no lock,
\* deleted it
C23_Witness ==
  \E s \in Senders, k \in 1..Len(fetch_log) :
    /\ Saved(fetch_log[k]) /\ fetch_log[k].by < req[s].id
    /\ fetch_log[k].tid = req[s].tid
    /\ <<fetch_log[k].tid, fetch_log[k].uid>> \notin DOMAIN cache
    /\ pc[s] \in {"ensure", "add_user", "read_history", "classify"}
    /\ locks[handle[s]].locked

\* the message holds a card keyword, a status keyword
HasCard(message) ==
  \E kw \in ECARD_KEYWORDS : Contains(Normalize(message), kw)

HasStatus(message) ==
  \E kw \in STATUS_CHECK_KEYWORDS : Contains(Normalize(message), kw)

\* C24: the keyword layer tests card keywords before status keywords. A
\* message with a card keyword, with or without a status keyword, is labelled
\* ECARD; one with status keywords only is labelled STATUS_CHECK; one with
\* neither gets no keyword label, so the label comes from the generative
\* classifier or is GENERAL. The label shows in the intent of authenticated
\* callers; both labels give LOGIN_REQUIRED to the others.
C24_KeywordPrecedence ==
  \A s \in Senders : Classified(s) =>
    LET card == HasCard(req[s].msg)
        stat == HasStatus(req[s].msg)
    IN /\ (card /\ Authed(s)) => intent[s] = "ECARD"
       /\ (~card /\ stat /\ Authed(s)) => intent[s] = "STATUS_CHECK"
       /\ ((card \/ stat) /\ ~Authed(s)) => intent[s] = "LOGIN_REQUIRED"
       /\ (~card /\ ~stat) =>
            /\ intent[s] \in VALID_INTENTS
            /\ ~Authed(s) => intent[s] = "GENERAL"

\* an authenticated request whose message holds a card and a status keyword
\* has ended with the card answer
C24_Witness ==
  \E s \in Senders :
    /\ Succeeded(s) /\ Authed(s)
    /\ HasCard(req[s].msg) /\ HasStatus(req[s].msg)
    /\ intent[s] = "ECARD" /\ result[s] = <<"ECARD">>

\* C25: the generative classifier is called exactly for the requests of
\* authenticated callers whose message holds no keyword. A keyword match
\* decides the label without a classify call, and an unauthenticated request
\* without keyword is GENERAL without a classify call.
C25_ClassifierOnlyWhenNeeded ==
  \A s \in Senders : Classified(s) =>
    LET matched == HasCard(req[s].msg) \/ HasStatus(req[s].msg) IN
    /\ calls[s].classify \in {0, 1}
    /\ calls[s].classify = 1 <=> (~matched /\ Authed(s))
    /\ calls[s].classify = 0 => classify_out[s] = NoLLM
    /\ matched =>
         /\ calls[s].classify = 0
         /\ intent[s] \in {"ECARD", "STATUS_CHECK", "LOGIN_REQUIRED"}
    /\ (~matched /\ ~Authed(s)) =>
         /\ calls[s].classify = 0 /\ intent[s] = "GENERAL"

\* a request with a userId but no authToken and no keyword has ended: it was
\* answered by the generative backend without a classify call
C25_Witness ==
  \E s \in Senders :
    /\ Succeeded(s) /\ req[s].userId # "" /\ req[s].authToken = ""
    /\ req[s].msg = PlainMsg
    /\ calls[s].classify = 0 /\ intent[s] = "GENERAL"
    /\ calls[s].chat + calls[s].chat_stream = 1

\* the label _llm_classify_intent is to give for each thing ollama.classify
\* may do
ExpectedLabel(out) ==
  CASE ~out.ok -> "GENERAL"
    [] out.ok /\ out.raw = <<>> -> "GENERAL"
    [] out.ok /\ out.raw = <<"ecard">> -> "ECARD"
    [] out.ok /\ out.raw = <<"status_check.">> -> "STATUS_CHECK"
    [] out.ok /\ out.raw = <<"GENERAL">> -> "GENERAL"
    [] out.ok /\ out.raw = <<"maybe", "ECARD">> -> "GENERAL"

\* C26: generative classification never fails the request. When the
\* classifier was called the label is the first word of its output, without
\* trailing punctuation and in upper case, if that is a valid label, and
\* GENERAL for any other output, for empty output and for a failed call; the
\* request goes on, and every request that ends ends with 200.
C26_ClassifierFallback ==
  \A s \in Senders :
    /\ (Classified(s) /\ calls[s].classify = 1) =>
         intent[s] = ExpectedLabel(classify_out[s])
    /\ pc[s] = "classify" => status[s] = 0
    /\ pc[s] = "done" => status[s] = 200

\* the classify call failed, the request was answered as GENERAL by the
\* generative backend and has ended with 200
C26_Witness ==
  \E s \in Senders :
    /\ Succeeded(s) /\ calls[s].classify = 1
    /\ ~classify_out[s].ok
    /\ intent[s] = "GENERAL"
    /\ calls[s].chat + calls[s].chat_stream = 1
    /\ RowsBy(req[s].id, "assistant") # {}

\* the request of slot s hands a history to ollama.chat / chat_stream
Chats(s) ==
  /\ Resolved(s)
  /\ intent[s] \in {"GENERAL", "STATUS_CHECK"}
  /\ ~IsFixedReply(intent[s], user_data[s])

ChatHistory(s) == truncated_history(history[s], intent[s], user_data[s])

\* the ids of the rows of the request's thread persisted before the request's
\* own user row, oldest first
PriorIds(s) ==
  LET own == CHOOSE k \in RowsBy(req[s].id, "user") : TRUE
      rows == ThreadMessages(SubSeq(messages, 1, own - 1), req[s].tid)
  IN [i \in 1..Len(rows) |-> rows[i].id]

ExactWindow(s) ==
  /\ RowsBy(req[s].id, "user") # {}
  /\ ChatHistory(s) = LastN(PriorIds(s), HistoryLimit(Authed(s)))

\* C27 as stated: the history handed to the chat call is the min(W, k) most
\* recent of the k rows persisted in the thread before the request's own
\* user row, oldest first, without the request's own row.
C27_Original == \A s \in Senders : Chats(s) => ExactWindow(s)

\* C27: the same, for threads whose lock was not evicted from the registry
\* while a request held or awaited it.
C27_HistoryWindow ==
  \A s \in Senders :
    (Chats(s) /\ req[s].tid \notin orphaned) => ExactWindow(s)

\* an anonymous request on a thread with more prior rows than its window got
\* the last MAX_HISTORY_MESSAGES of them
C27_Witness ==
  \E s \in Senders :
    /\ Chats(s) /\ ~Authed(s) /\ req[s].tid \notin orphaned
    /\ RowsBy(req[s].id, "user") # {}
    /\ Len(PriorIds(s)) > MAX_HISTORY_MESSAGES
    /\ Len(ChatHistory(s)) = MAX_HISTORY_MESSAGES
    /\ ChatHistory(s) = LastN(PriorIds(s), MAX_HISTORY_MESSAGES)

\* the text delivered to the caller of slot s so far: the reply of the
\* non-streaming path, the chunk events of the streaming path
Delivered(s) ==
  IF req[s].kind = "stream"
  THEN Join(ChunksSent(s))
  ELSE result[s]

\* C28: the reply delivered to the caller and the assistant row persisted
\* for it are never longer than MAX_ANSWER_LENGTH, on either path, and a
\* longer output of the generative backend is cut to its first
\* MAX_ANSWER_LENGTH characters.
C28_AnswerCapped ==
  /\ \A k \in 1..Len(messages) :
       messages[k].role = "assistant" =>
         Len(messages[k].content) <= MAX_ANSWER_LENGTH
  /\ \A s \in Senders :
       /\ req[s].kind \in {"send", "stream"} =>
            Len(Delivered(s)) <= MAX_ANSWER_LENGTH
       /\ \A i \in 1..Len(events[s]) :
            events[s][i].event = "done" =>
              Len(events[s][i].fullAnswer) <= MAX_ANSWER_LENGTH
       /\ (Succeeded(s) /\ req[s].kind = "send") =>
            \E g \in inputs.gens :
              result[s] = SubSeq(g.text, 1,
                IF Len(g.text) < MAX_ANSWER_LENGTH THEN Len(g.text)
                ELSE MAX_ANSWER_LENGTH)

\* a streamed answer longer than the budget was delivered in full and
\* persisted in full
C28_Witness ==
  \E s \in Senders :
    /\ Succeeded(s) /\ req[s].kind = "stream"
    /\ Len(Delivered(s)) > MAX_ANSWER_LENGTH
    /\ \E k \in RowsBy(req[s].id, "assistant") :
         /\ messages[k].content = Delivered(s)
         /\ Len(messages[k].content) > MAX_ANSWER_LENGTH

\* the non-streaming path alone keeps the budget
CappedWithoutStreaming ==
  /\ \A s \in Senders :
       req[s].kind = "send" => Len(result[s]) <= MAX_ANSWER_LENGTH
  /\ \A k \in 1..Len(messages) :
       (messages[k].role = "assistant"
        /\ \E s \in Senders : req[s].id = messages[k].by /\ req[s].kind = "send")
         => Len(messages[k].content) <= MAX_ANSWER_LENGTH

\* the request of slot s has ended after its user row was written
Ended(s) ==
  /\ pc[s] = "done" /\ req[s].kind \in {"send", "stream"}
  /\ RowsBy(req[s].id, "user") # {}

\* generation succeeded for the request of slot s: answer() returned a
\* reply, the stream of answer_stream was exhausted
Generated(s) ==
  IF req[s].kind = "send" THEN result[s] # <<>>
  ELSE DoneEvents(s) # {}

Stored(s) == RowsBy(req[s].id, "assistant") # {}

\* what the caller of slot s received: the status of the response and, for a
\* stream, its terminal event without the answer text
Outcome(s) ==
  IF req[s].kind = "send" \/ events[s] = <<>>
  THEN [status |-> status[s], event |-> "none", code |-> 0, stored |-> FALSE]
  ELSE LET e == events[s][Len(events[s])] IN
       [status |-> status[s], event |-> e.event,
        code |-> IF e.event = "error" THEN e.code ELSE 0,
        stored |-> IF e.event = "done" THEN e.messageId # 0 ELSE FALSE]

Created(s) ==
  /\ pc[s] = "done" /\ req[s].kind = "create" /\ status[s] = 200

\* C30: every create-thread call returns an id of the accepted grammar that
\* differs from the id returned by every other create-thread call, whatever
\* the time between the two calls.
C30_UniqueThreadIds ==
  \A s \in Senders : Created(s) =>
    /\ Len(result[s]) = 1 /\ UUID_RE(result[s][1].id)
    /\ \A t \in Senders \ {s} : Created(t) => result[t][1].id # result[s][1].id

\* two users created a thread within the same second and got the same id
C30_Witness ==
  \E s, t \in Senders :
    /\ s # t /\ Created(s) /\ Created(t) /\ req[s].ip # req[t].ip
    /\ result[s][1].id = result[t][1].id
    /\ UUID_RE(result[s][1].id)

\* the ids returned are always of the accepted grammar
CreatedIdsInGrammar ==
  \A s \in Senders : Created(s) =>
    Len(result[s]) = 1 /\ UUID_RE(result[s][1].id)

\* the thread ids that have a lock in the registry
Registered == {thread_locks[i].tid : i \in 1..Len(thread_locks)}

\* C31: the eviction hazard has this shape and no other. Two requests are
\* inside locked sections of one thread id only after that id's lock was
\* evicted while held or awaited, and then through different locks; a
\* request that looks up a thread id that is not registered gets a lock that
\* no request has seen before; a request inside a locked section holds its
\* lock alone, whether the lock is still registered or not, leaves the
\* section in the end and frees the lock in the step in which it leaves.
C31_EvictionHazard ==
  /\ [](\A s1, s2 \in Senders :
         /\ InLocked(s1) => locks[handle[s1]].locked /\ Holders(handle[s1]) = {s1}
         /\ (s1 # s2 /\ InLocked(s1) /\ InLocked(s2)
             /\ req[s1].tid = req[s2].tid) =>
              /\ req[s1].tid \in orphaned
              /\ handle[s1] # handle[s2])
  /\ [][\A s \in Senders :
          /\ (handle'[s] # handle[s] /\ handle'[s] # 0
              /\ req[s].tid \notin Registered) =>
               /\ handle'[s] = Len(locks) + 1
               /\ \A t \in Senders \ {s} : handle[t] # handle'[s]
          /\ (InLocked(s) /\ pc'[s] \notin LockedPcs) =>
               ~locks'[handle[s]].locked]_vars
  /\ \A s \in Senders : InLocked(s) ~> ~InLocked(s)

\* the lock of a thread was evicted while a request held it; the next request
\* on the thread got a fresh lock and both are inside their locked sections
C31_Witness ==
  \E s1, s2 \in Senders :
    /\ s1 # s2 /\ InLocked(s1) /\ InLocked(s2)
    /\ req[s1].tid = req[s2].tid /\ req[s1].tid \in orphaned
    /\ req[s1].id < req[s2].id /\ handle[s1] < handle[s2]
    /\ locks[handle[s1]].locked /\ locks[handle[s2]].locked
    /\ \A i \in 1..Len(thread_locks) : thread_locks[i].lock # handle[s1]

\* the admissions of caller ip of method class m stamped in (t - window, t]
AdmittedWithin(ip, m, t) ==
  {k \in 1..Len(rl_log) :
     /\ rl_log[k].ip = ip /\ rl_log[k].code = 200 /\ rl_log[k].method = m
     /\ rl_log[k].t <= t /\ t - rl_log[k].t < window}

\* the timestamps of a sequence of log entries
Stamps(L) == [k \in 1..Len(L) |-> L[k].t]

\* requests of the caller are between dispatch and the end of call_next in
\* every slot at once
InFlightTogether == \A s \in Senders : pc[s] = "admitted"

\* C32: dispatch runs its admission check (prune, compare, append, store,
\* sweep) as one step against all other requests: however the requests of one
\* caller overlap, the admissions of a method class stamped within one window
\* never exceed that class's limit, and every admitted timestamp that is
\* still inside the window is in the caller's bucket, in admission order.
C32_AtomicAdmission ==
  /\ [](\A ip \in inputs.ips : \A t \in 0..now : \A m \in {"GET", "POST"} :
         Cardinality(AdmittedWithin(ip, m, t)) <= LimitOf(m, max_requests))
  /\ [](\A ip \in inputs.ips :
         InWindow(HitsOf(hits, ip), now, window)
           = InWindow(Stamps(AdmissionsOf(ip)), now, window))
  /\ [][hits' # hits =>
          /\ Len(rl_log') = Len(rl_log) + 1
          /\ rl_log'[Len(rl_log')].code = 200
          /\ rl_log'[Len(rl_log')].method \in {"GET", "POST"}
          /\ rl_log'[Len(rl_log')].ip \in DOMAIN hits'
          /\ hits'[rl_log'[Len(rl_log')].ip]
               = Append(InWindow(HitsOf(hits, rl_log'[Len(rl_log')].ip),
                                 now, window), now)
       ]_vars

\* two requests of one caller were admitted at the same instant and are both
\* in flight, the bucket holds both timestamps, and the caller's next
\* request of that instant was rejected before
C32_Witness ==
  /\ InFlightTogether
  /\ \E ip \in inputs.ips :
       /\ Len(HitsOf(hits, ip)) >= 2
       /\ HitsOf(hits, ip)[Len(hits[ip])] = now
       /\ HitsOf(hits, ip)[Len(hits[ip]) - 1] = now
       /\ \E k \in 1..Len(rl_log) :
            rl_log[k].ip = ip /\ rl_log[k].code = 429 /\ rl_log[k].t = now
\* the step is an admission of a counted request
Admitting ==
  /\ Len(rl_log') = Len(rl_log) + 1
  /\ rl_log'[Len(rl_log')].code = 200
  /\ rl_log'[Len(rl_log')].method \in {"GET", "POST"}

\* the buckets as dispatch stores them for an admission of caller ip, before
\* any sweep
StoredFor(ip) ==
  [i \in (DOMAIN hits) \cup {ip} |->
     IF i = ip THEN Append(InWindow(HitsOf(hits, ip), now, window), now)
     ELSE hits[i]]

\* the list has a timestamp younger than the window at time t
Fresh(ts, t, w) == \E i \in 1..Len(ts) : t - ts[i] < w

\* all counted requests that dispatch admitted
Admissions ==
  SelectSeq(rl_log, LAMBDA e : e.code = 200 /\ e.method \in {"GET", "POST"})

\* C33: the sweep counter counts admitted GET/POST requests and is reset at
\* every SWEEP_EVERY-th one; an admission sweeps when it is such a one or when
\* more than MAX_TRACKED_IPS callers are tracked after its bucket is stored,
\* and not otherwise; a sweep removes exactly the buckets without an
\* in-window timestamp and leaves the others as they are, so after it no
\* tracked bucket is empty or wholly stale; no other step touches the buckets.
C33_Sweep ==
  /\ [](sweep_counter = Len(Admissions) % SWEEP_EVERY)
  /\ [][IF Admitting
        THEN LET ip == rl_log'[Len(rl_log')].ip
                 pre == StoredFor(ip)
                 periodic == (Len(Admissions) + 1) % SWEEP_EVERY = 0
                 capped == Cardinality(DOMAIN pre) > MAX_TRACKED_IPS
             IN /\ sweep_counter' = IF periodic THEN 0 ELSE sweep_counter + 1
                /\ IF periodic \/ capped
                   THEN /\ DOMAIN hits'
                            = {i \in DOMAIN pre : Fresh(pre[i], now, window)}
                        /\ \A i \in DOMAIN hits' : hits'[i] = pre[i]
                        /\ \A i \in DOMAIN hits' :
                             /\ hits'[i] # <<>>
                             /\ ~(\A k \in 1..Len(hits'[i]) :
                                    now - hits'[i][k] >= window)
                   ELSE hits' = pre
        ELSE hits' = hits /\ sweep_counter' = sweep_counter
       ]_vars

\* after the periodic sweep of the SWEEP_EVERY-th admission, the admission of
\* a third caller exceeded the cap and swept the stale buckets of the two
\* callers tracked before
C33_Witness ==
  /\ Len(Admissions) = SWEEP_EVERY + 1
  /\ sweep_counter = 1
  /\ Cardinality({Admissions[k].ip : k \in 1..Len(Admissions)}) = 3
  /\ DOMAIN hits = {rl_log[Len(rl_log)].ip}
  /\ rl_log[Len(rl_log)].code = 200

\* a stale bucket stayed tracked through an admission that did not sweep, and
\* the periodic sweep of a later admission removed it
SweptPeriodically ==
  /\ Len(Admissions) = SWEEP_EVERY
  /\ Len(rl_log) = SWEEP_EVERY
  /\ sweep_counter = 0
  /\ Cardinality({Admissions[k].ip : k \in 1..Len(Admissions)}) = 2
  /\ Cardinality(DOMAIN hits) = 1
  /\ Admissions[1].ip # Admissions[2].ip
  /\ Admissions[2].t - Admissions[1].t >= window
\* the counted admissions of the caller of log entry k, of either method
\* class, that precede it and are younger than the window at its time
SharedBefore(k) ==
  {j \in 1..(k - 1) :
     /\ rl_log[j].ip = rl_log[k].ip /\ rl_log[j].code = 200
     /\ rl_log[j].method \in {"GET", "POST"}
     /\ rl_log[k].t - rl_log[j].t < window}

\* C34: GET and POST requests of one caller are counted in one bucket: a
\* POST is rejected exactly when the caller's in-window admissions of both
\* classes number at least max_requests, a GET exactly when they number at
\* least GET_MULTIPLIER * max_requests; a request of any other method is
\* passed on, and its step changes neither a bucket nor the sweep counter.
C34_SharedBucket ==
  /\ [](\A k \in 1..Len(rl_log) :
         CASE rl_log[k].method = "POST" ->
                (rl_log[k].code = 429)
                  <=> (Cardinality(SharedBefore(k)) >= max_requests)
           [] rl_log[k].method = "GET" ->
                (rl_log[k].code = 429)
                  <=> (Cardinality(SharedBefore(k))
                         >= GET_MULTIPLIER * max_requests)
           [] OTHER -> rl_log[k].code = 200)
  /\ [](\A ip \in DOMAIN hits :
         \A i \in 1..Len(hits[ip]) :
           \E k \in 1..Len(rl_log) :
             /\ rl_log[k].ip = ip /\ rl_log[k].t = hits[ip][i]
             /\ rl_log[k].code = 200 /\ rl_log[k].method \in {"GET", "POST"})
  /\ [][(/\ Len(rl_log') = Len(rl_log) + 1
         /\ rl_log'[Len(rl_log')].method \notin {"GET", "POST"}) =>
          /\ hits' = hits /\ sweep_counter' = sweep_counter
          /\ \E s \in Senders : pc'[s] = "admitted" /\ status'[s] = 0
       ]_vars

\* within one window a caller's GET was admitted, its POST was then rejected
\* because of that GET, a further GET was admitted all the same, and a
\* request of another method passed while the POST limit was reached
C34_Witness ==
  /\ Len(rl_log) = 4
  /\ \A k \in 1..4 : rl_log[k].ip = rl_log[1].ip /\ rl_log[k].t = rl_log[1].t
  /\ rl_log[1].method = "GET" /\ rl_log[1].code = 200
  /\ rl_log[2].method = "POST" /\ rl_log[2].code = 429
  /\ rl_log[3].method = "GET" /\ rl_log[3].code = 200
  /\ rl_log[4].method = "OPTIONS" /\ rl_log[4].code = 200
  /\ Len(HitsOf(hits, rl_log[1].ip)) = 2
\* the position of the one row that request i wrote with the given role
RowOf(i, role) == CHOOSE k \in RowsBy(i, role) : TRUE

\* request i wrote its user row and its assistant row
Paired(i) == RowsBy(i, "user") # {} /\ RowsBy(i, "assistant") # {}

\* the row ids in the history that the request of slot s read
Seen(s) == {history[s][k] : k \in 1..Len(history[s])}

\* C35: a streamed request persists its assistant row only after its
\* generation, under a lock taken anew, so rows of an overlapping request of
\* the thread may lie between its user row and its assistant row, while the
\* two rows of a plain request are adjacent; no request has an assistant row
\* while it generates a stream; and every request writes at most one user row
\* and at most one assistant row, the user row first, a request that
\* completed exactly one of each.
C35_StreamedReplyPersistedLate ==
  /\ \A i \in 1..nreq :
       /\ Cardinality(RowsBy(i, "user")) <= 1
       /\ Cardinality(RowsBy(i, "assistant")) <= 1
       /\ Paired(i) => RowOf(i, "user") < RowOf(i, "assistant")
  /\ \A s \in Senders :
       /\ (Succeeded(s) /\ req[s].kind \in {"send", "stream"}) =>
            /\ Cardinality(RowsBy(req[s].id, "user")) = 1
            /\ Cardinality(RowsBy(req[s].id, "assistant")) = 1
       /\ (req[s].kind = "stream" /\ pc[s] \in {"streaming", "commit_wait", "commit"}) =>
            /\ RowsBy(req[s].id, "assistant") = {}
            /\ Cardinality(RowsBy(req[s].id, "user")) = 1
       /\ (req[s].kind = "send" /\ Paired(req[s].id)) =>
            RowOf(req[s].id, "assistant") = RowOf(req[s].id, "user") + 1

\* a streamed request and a later request of the same thread both completed:
\* the later one's user row and assistant row lie between the streamed
\* request's user row and assistant row, and the history the later one read
\* has the streamed request's user row but not its reply
C35_Witness ==
  \E s1, s2 \in Senders :
    /\ s1 # s2 /\ Succeeded(s1) /\ Succeeded(s2)
    /\ req[s1].kind = "stream" /\ req[s1].tid = req[s2].tid
    /\ req[s1].id < req[s2].id
    /\ Paired(req[s1].id) /\ Paired(req[s2].id)
    /\ RowOf(req[s1].id, "user") < RowOf(req[s2].id, "user")
    /\ RowOf(req[s2].id, "assistant") < RowOf(req[s1].id, "assistant")
    /\ RowOf(req[s1].id, "user") \in Seen(s2)
    /\ RowOf(req[s1].id, "assistant") \notin Seen(s2)
\* the request of slot s has looked into the cache or called the record
\* source, or is about to
Resolves(s) ==
  \/ calls[s].lookup > 0 \/ calls[s].fetch > 0 \/ calls[s].save > 0
  \/ pc[s] \in {"cache_lookup", "fetch", "save"}
  \/ \E k \in 1..Len(fetch_log) : fetch_log[k].by = req[s].id

\* the step is a cache lookup or a record fetch of slot s
ResolveStep(s) ==
  \/ calls'[s].lookup > calls[s].lookup
  \/ calls'[s].fetch > calls[s].fetch

\* C36: only a request with userId and authToken both non-empty and label
\* STATUS_CHECK or GENERAL looks into the cache or calls the record source;
\* a request that ends as LOGIN_REQUIRED or ECARD and an unauthenticated
\* request do neither; every authenticated STATUS_CHECK or GENERAL request
\* has looked into the cache once when classify_and_prepare is over, and has
\* fetched exactly when the lookup missed; lookup and fetch are steps of a
\* request that holds its thread's lock.
C36_ResolveOnlyWhenAuthenticated ==
  /\ [](\A s \in Senders :
         /\ Resolves(s) =>
              /\ Authed(s) /\ req[s].userId # "" /\ req[s].authToken # ""
              /\ intent[s] \in {"STATUS_CHECK", "GENERAL"}
         /\ (Resolved(s) /\ (~Authed(s) \/ intent[s] \in {"LOGIN_REQUIRED", "ECARD"}))
              => ~Resolves(s)
         /\ (Resolved(s) /\ Authed(s) /\ intent[s] \in {"STATUS_CHECK", "GENERAL"})
              => /\ calls[s].lookup = 1
                 /\ calls[s].fetch \in {0, 1}
                 /\ calls[s].fetch = 1
                      <=> \E k \in 1..Len(fetch_log) : fetch_log[k].by = req[s].id)
  /\ [][\A s \in Senders :
          /\ ResolveStep(s) =>
               /\ InLocked(s) /\ locks[handle[s]].locked
               /\ Holders(handle[s]) = {s}
          /\ (calls'[s].fetch > calls[s].fetch) =>
               ~get_cached_user_data(cache, req[s].tid, req[s].userId).present
          /\ (calls'[s].lookup > calls[s].lookup /\ pc'[s] # "fetch") =>
               get_cached_user_data(cache, req[s].tid, req[s].userId).present
       ]_vars

\* an authenticated streamed request without keyword was labelled GENERAL,
\* found the record in the cache (an earlier request of the thread fetched
\* it) and has left the locked section
C36_Witness ==
  \E s \in Senders :
    /\ pc[s] = "streaming" /\ Authed(s) /\ req[s].msg = PlainMsg
    /\ intent[s] = "GENERAL"
    /\ calls[s].lookup = 1 /\ calls[s].fetch = 0
    /\ user_data[s].present
    /\ fetch_log # <<>>
    /\ ~locks[handle[s]].locked
\* the record source failed for the fetch that the request of slot s made
FetchFailed(s) ==
  \E k \in 1..Len(fetch_log) :
    fetch_log[k].by = req[s].id /\ fetch_log[k].outcome # "ok"

\* C37: a failed record fetch does not fail the request but leaves it
\* without personal data: an authenticated STATUS_CHECK request whose fetch
\* failed gets no record, makes no generative call and answers and persists
\* the fixed 'unable to fetch' reply; an authenticated GENERAL request whose
\* fetch failed goes on to generation without a record.
C37_FailedFetchDegrades ==
  \A s \in Senders :
    (Authed(s) /\ FetchFailed(s)) =>
      /\ status[s] \in {0, 200}
      /\ Resolved(s) => ~user_data[s].present
      /\ (Resolved(s) /\ intent[s] = "STATUS_CHECK") =>
           /\ calls[s].chat = 0 /\ calls[s].chat_stream = 0
           /\ Succeeded(s) => Answered(s, UNABLE_RESPONSE)

\* an authenticated status request whose fetch failed completed: it was
\* handed the aggregate of the failed fetch as its record, called the
\* generative backend and persisted that answer, not the fixed reply
C37_Witness ==
  \E s \in Senders :
    /\ Succeeded(s) /\ Authed(s) /\ FetchFailed(s)
    /\ intent[s] = "STATUS_CHECK"
    /\ user_data[s].present /\ user_data[s].errors
    /\ calls[s].chat + calls[s].chat_stream = 1
    /\ result[s] # UNABLE_RESPONSE
    /\ \E k \in RowsBy(req[s].id, "assistant") : messages[k].content = result[s]

\* a request is never failed by its record fetch: whatever the record source
\* answers, the request goes on with status 0 or 200
FetchNeverFails ==
  \A s \in Senders : Resolves(s) => status[s] \in {0, 200}
\* the request of slot s ended in failure
Aborted(s) == pc[s] = "done" /\ status[s] \in {500, 502}

\* C38: a request that took a thread lock gives it back in the step in which
\* it leaves the locked section, whether it leaves by success, by a failed
\* generation, or by an exception of the store while ensuring the thread,
\* persisting a row or resolving the record; a lock is taken only while a
\* request is inside a section entered through it; and when every request
\* that can take a step does so, every waiter acquires its lock, every
\* locked section is left and every request ends.
C38_LockAlwaysReleased ==
  /\ [](\A h \in 1..Len(locks) :
         locks[h].locked => \E s \in Senders : InLocked(s) /\ handle[s] = h)
  /\ [](\A s \in Senders :
         pc[s] \in {"idle", "admitted", "streaming", "done"} =>
           \A h \in 1..Len(locks) :
             locks[h].locked => \E t \in Senders \ {s} : InLocked(t) /\ handle[t] = h)
  /\ [][\A s \in Senders :
          (InLocked(s) /\ ~InLocked(s)') =>
            /\ handle'[s] = handle[s]
            /\ ~locks'[handle[s]].locked]_vars
  /\ \A s \in Senders : (pc[s] = "waiting") ~> (pc[s] = "ensure")
  /\ \A s \in Senders : (pc[s] = "commit_wait") ~> (pc[s] = "commit")
  /\ \A s \in Senders : InLocked(s) ~> ~InLocked(s)
  /\ \A s \in Senders : (pc[s] = "admitted") ~> (pc[s] = "done")

\* a request failed inside its locked section while another waited for the
\* lock: the lock is free and the waiter is next to take it
C38_Witness ==
  \E s1, s2 \in Senders :
    /\ Aborted(s1) /\ pc[s2] = "waiting"
    /\ req[s1].tid = req[s2].tid /\ handle[s1] = handle[s2]
    /\ ~locks[handle[s2]].locked
    /\ locks[handle[s2]].waiters = <<s2>>
\* the request of slot s is in the commit phase of its stream: generation
\* has ended without error and the assistant row is to be persisted
Committing(s) == req[s].kind = "stream" /\ pc[s] \in {"commit_wait", "commit"}

\* C39: once the generation of a streamed request has ended without error,
\* the request does not end, on any exit path, the consumer's cancellation
\* or disconnection included, without its assistant row persisted: it
\* leaves the commit phase only with the row in the store.
C39_CommitNeverSkipped ==
  [][\A s \in Senders :
       (Committing(s) /\ ~Committing(s)') =>
         \E k \in 1..Len(messages') :
           /\ messages'[k].by = req[s].id /\ messages'[k].role = "assistant"
           /\ messages'[k].content = result[s]
    ]_vars

\* the consumer went away while the finished stream waited for the commit
\* lock: the request is over, its fragments were sent and joined, and the
\* store has its user row but no assistant row
C39_Witness ==
  \E s \in Senders :
    /\ pc[s] = "cancelled" /\ req[s].kind = "stream"
    /\ result[s] # <<>> /\ result[s] = Join(ChunksSent(s))
    /\ RowsBy(req[s].id, "user") # {}
    /\ RowsBy(req[s].id, "assistant") = {}
    /\ \A h \in 1..Len(locks) :
         \A k \in 1..Len(locks[h].waiters) : locks[h].waiters[k] # s
    /\ \A k \in 1..Len(events[s]) : events[s][k].event = "chunk"
\* the pages of list-messages for the offsets offset, offset + limit, ...
\* read one after the other until a page comes back empty, put together
RECURSIVE PagesFrom(_, _, _, _)
PagesFrom(msgs, tid, limit, offset) ==
  LET page == get_paginated_thread_messages(msgs, tid, limit, offset) IN
  IF page.messages = <<>> THEN <<>>
  ELSE page.messages \o PagesFrom(msgs, tid, limit, offset + limit)

\* sq lists exactly the rows of thread tid, each once, by creation time and,
\* among rows of one creation time, by insertion sequence
IsOrderedListing(sq, msgs, tid) ==
  /\ {sq[k] : k \in 1..Len(sq)} = {msgs[k] : k \in {j \in 1..Len(msgs) : msgs[j].thread = tid}}
  /\ \A k \in 1..(Len(sq) - 1) : RowBefore(sq[k], sq[k + 1])

\* the rows of thread tid in the table
CountOf(msgs, tid) == Cardinality({k \in 1..Len(msgs) : msgs[k].thread = tid})

\* C40: with the table left alone, the pages of list-messages for
\* consecutive offsets, whatever the limit, put together are the thread's
\* rows by (created_at, insertion sequence), none twice and none left out,
\* every page reports the thread's row count as total and has at most limit
\* rows, a page past the end is empty, and the 'most recent N' query returns
\* the last min(N, count) rows of that sequence in that order; the page that
\* get_messages answers is that slice of the sequence.
C40_StablePagination ==
  /\ \A tid \in inputs.threads :
       LET n == CountOf(messages, tid)
           listing == PagesFrom(messages, tid, 1, 0)
       IN /\ IsOrderedListing(listing, messages, tid)
          /\ Len(listing) = n
          /\ \A limit \in 1..(MaxRows + 1) :
               /\ PagesFrom(messages, tid, limit, 0) = listing
               /\ \A offset \in 0..(MaxRows + 1) :
                    LET page == get_paginated_thread_messages(messages, tid,
                                                              limit, offset)
                    IN /\ page.total = n
                       /\ Len(page.messages) <= limit
                       /\ offset >= n => page.messages = <<>>
                       /\ \A k \in 1..Len(page.messages) :
                            page.messages[k] = listing[offset + k]
                       /\ offset + Len(page.messages) < n
                            => Len(page.messages) = limit
          /\ \A N \in 1..(MaxRows + 1) :
               get_recent_thread_messages(messages, tid, N)
                 = SubSeq(listing, n - (IF N < n THEN N ELSE n) + 1, n)
  /\ \A s \in Senders :
       (req[s].kind = "list" /\ Succeeded(s) /\ result[s] # <<>>) =>
         LET r == result[s][1]
             listing == PagesFrom(messages, r.threadId, 1, 0)
         IN /\ r.total = Len(listing)
            /\ \A k \in 1..Len(r.messages) : r.messages[k] = listing[r.offset + k]

\* a caller got the second page of a thread with three rows of which the
\* last inserted has the earliest creation time and the other two share
\* one: the page starts with the row inserted first
C40_Witness ==
  \E s \in Senders :
    /\ req[s].kind = "list" /\ Succeeded(s) /\ result[s] # <<>>
    /\ CountOf(messages, req[s].tid) = 3 /\ Len(messages) = 3
    /\ messages[1].created_at = messages[2].created_at
    /\ messages[3].created_at < messages[1].created_at
    /\ result[s][1].offset = 1 /\ result[s][1].limit = 2
    /\ result[s][1].total = 3
    /\ Len(result[s][1].messages) = 2
    /\ result[s][1].messages[1].id = 1 /\ result[s][1].messages[2].id = 2
====
